---- MODULE Spec2Model ----
(***************************************************************************)
(* A model of the git client in app/: the object codec and object store    *)
(* (git_object.py, writer.py, encoder.py), the packfile delta resolver and *)
(* delta interpreter (packfile.py) and clone / checkout (commands.py).     *)
(*                                                                         *)
(* Bytes are the integers 0..255; a byte string is a sequence of bytes.    *)
(* An object id (20 raw bytes, 40 hex characters) occupies one position of *)
(* a byte string and is an integer above 255, the digest Sha1 computes     *)
(* from the bytes hashed.                                                  *)
(***************************************************************************)
EXTENDS Integers, Sequences, FiniteSets, TLC

VARIABLES
    dBase,      \* _apply_delta: base_data
    dInstrs,    \* the copy / insert instructions the delta stream encodes
    dDelta,     \* _apply_delta: delta_data
    dResult,    \* outcome of _apply_delta: [err, data]
    dpc,        \* position of the delta run
    objects,          \* _resolve_deltas: the parsed pack entries
    base_objects,     \* _resolve_deltas: dict sha -> PackObject, in insertion order
    delta_objects,    \* _resolve_deltas: ref-deltas still to resolve
    remaining_deltas, \* _resolve_deltas: ref-deltas left over by the current pass
    didx,             \* position of the for loop over delta_objects
    made_progress,    \* _resolve_deltas: the current pass resolved a delta
    iteration,        \* _resolve_deltas: number of passes started
    rpc,              \* position of the resolver
    rerr,             \* the exception that ended the resolver, "none" if none
    repo,       \* the root tree of the repository the server holds
    server,     \* the server's responses: [info, refs, pack]
    cpc,        \* position of clone
    cerr,       \* the exception that ended clone and the step that raised it
    attempt,    \* how many times clone was started
    prior,      \* how the previous run of clone ended, "none" before the second
    head_ref,   \* clone: head_ref
    widx,       \* clone: position of the for loop over pack_objects
    fs,         \* the files and directories under the clone directory
    shards,     \* the directories .git/objects/<folder> that exist
    store,      \* the files .git/objects/<folder>/<filename>, by object id
    out,        \* what the last local command returned, or the error it raised
    wrote,      \* the last object write: [type, contents, ret, existed, err]
    nops,       \* number of local commands run
    sent,       \* what the server put in the fetch response: [junk, signed,
                \* entries, cut]
    stream,     \* PackfileParser.stream: the bytes of the fetch response
    cursor,     \* the position of stream, stream.tell()
    spc,        \* position of parse_objects
    serr,       \* the exception that ended parse_objects, "none" if none
    num_objects,\* parse_objects: num_objects
    decoded,    \* parse_objects: the objects _parse_object has returned
    starts,     \* the position of stream at each call of _parse_object
    scans       \* number of turns of the loop of _skip_until_pack

deltaVars == <<dBase, dInstrs, dDelta, dResult, dpc>>

resolveVars == <<objects, base_objects, delta_objects, remaining_deltas, didx,
                 made_progress, iteration, rpc, rerr>>

cloneVars == <<repo, server, cpc, cerr, attempt, prior, head_ref, widx, fs, shards,
               store, out, wrote, nops>>

streamVars == <<sent, stream, cursor, spc, serr, num_objects, decoded, starts, scans>>

vars == <<sent, stream, cursor, spc, serr, num_objects, decoded, starts, scans,
          dBase, dInstrs, dDelta, dResult, dpc,
          objects, base_objects, delta_objects, remaining_deltas, didx,
          made_progress, iteration, rpc, rerr,
          repo, server, cpc, cerr, attempt, prior, head_ref, widx, fs, shards,
          store, out, wrote, nops>>

----------------------------------------------------------------------------
(* Bounds *)

MaxBaseLen == 2     \* longest small base payload of a delta run
MaxInstrs == 2      \* most instructions in a delta stream on a small base
BigBaseLen == 65537 \* length of the one large base payload
MaxPack == 4        \* most entries in a pack handed to the resolver
ChainDepth == 3     \* longest chain of deltas on deltas

----------------------------------------------------------------------------
(* Byte-string helpers *)

Min(a, b) == IF a < b THEN a ELSE b

\* Python's s[a:b] for 0 <= a, with the end clipped to len(s)
Slice(s, a, b) == SubSeq(s, a + 1, Min(b, Len(s)))

\* (byte >> k) & 1
BitSet(b, k) == (b \div (2 ^ k)) % 2 = 1

\* v << s
Shl(v, s) == v * (2 ^ s)

RECURSIVE SeqsUpTo(_, _)
SeqsUpTo(S, n) ==
    IF n = 0 THEN {<<>>}
    ELSE LET shorter == SeqsUpTo(S, n - 1)
         IN shorter \cup {Append(s, x) : s \in shorter, x \in S}

Range(s) == {s[i] : i \in 1..Len(s)}

\* the sequences of at most n distinct elements of S
RECURSIVE DistinctSeqs(_, _)
DistinctSeqs(S, n) ==
    IF n = 0 THEN {<<>>}
    ELSE LET shorter == DistinctSeqs(S, n - 1)
         IN shorter \cup UNION {{Append(s, x) : x \in S \ Range(s)} : s \in shorter}

RECURSIVE Flatten(_)
Flatten(ss) == IF ss = <<>> THEN <<>> ELSE Head(ss) \o Flatten(Tail(ss))

----------------------------------------------------------------------------
(* Object codec: encoder.py and git_object.py *)

\* obj_type.encode(): the ASCII bytes of a type name
KindBytes(obj_type) ==
    CASE obj_type = "blob" -> <<98, 108, 111, 98>>
      [] obj_type = "tree" -> <<116, 114, 101, 101>>
      [] obj_type = "commit" -> <<99, 111, 109, 109, 105, 116>>
      [] obj_type = "tag" -> <<116, 97, 103>>
      [] obj_type = "ofs_delta" -> <<111, 102, 115, 95, 100, 101, 108, 116, 97>>
      [] obj_type = "ref_delta" -> <<114, 101, 102, 95, 100, 101, 108, 116, 97>>
      [] obj_type = "unknown_0" -> <<117, 110, 107, 110, 111, 119, 110, 95, 48>>
      [] obj_type = "unknown_5" -> <<117, 110, 107, 110, 111, 119, 110, 95, 53>>

\* str(n).encode(): decimal digits, most significant first
RECURSIVE Decimal(_)
Decimal(n) ==
    IF n < 10 THEN <<48 + n>> ELSE Decimal(n \div 10) \o <<48 + (n % 10)>>

\* encoder.py lines 1-4
EncodeObject(contents, object_type) ==
    KindBytes(object_type) \o <<32>> \o Decimal(Len(contents)) \o <<0>> \o contents

\* git_object.py lines 7-10: the framing create_git_object does itself
BlobObject(contents, obj_type) ==
    KindBytes(obj_type) \o <<32>> \o Decimal(Len(contents)) \o <<0>> \o contents

\* hashlib.sha1: a digest of the bytes hashed, the polynomial
\* 7 * 263^n + (b1 + 1) * 263^(n-1) + ... + (bn + 1) modulo DigestModulus,
\* computed by halves; ids are kept apart from bytes by the offset 256
DigestModulus == 999983

\* a * b modulo DigestModulus within 32 bits
MulMod(a, b) ==
    (((a * (b \div 1000)) % DigestModulus) * 1000 + a * (b % 1000)) % DigestModulus

\* the digest of a string from the digests of its two halves
DigestJoin(l, r) ==
    [val |-> (MulMod(l.val, r.pow) + r.val) % DigestModulus,
     pow |-> MulMod(l.pow, r.pow)]

RECURSIVE DigestRange(_, _, _)
DigestRange(bytes, lo, hi) ==
    IF lo > hi THEN [val |-> 0, pow |-> 1]
    ELSE IF lo = hi THEN [val |-> (bytes[lo] + 1) % DigestModulus, pow |-> 263]
    ELSE DigestJoin(DigestRange(bytes, lo, (lo + hi) \div 2),
                    DigestRange(bytes, (lo + hi) \div 2 + 1, hi))

Digest(bytes, h) ==
    DigestJoin([val |-> h, pow |-> 1], DigestRange(bytes, 1, Len(bytes))).val

Sha1(bytes) == 256 + Digest(bytes, 7)

\* zlib.compress / zlib.decompress of a whole buffer
ZlibCompress(bytes) == [zlib |-> bytes]
ZlibDecompress(compressed) == compressed.zlib

\* git_object.py lines 7-11 and 22: the id create_git_object returns
ObjectHash(contents, obj_type) == Sha1(BlobObject(contents, obj_type))

----------------------------------------------------------------------------
(* packfile.py: PackfileParser._apply_delta *)

\* lines 230-248: a size header, 7 bits per byte, least significant first
RECURSIVE ReadDeltaSize(_, _, _, _)
ReadDeltaSize(delta_data, pos, shift, acc) ==
    IF pos >= Len(delta_data)
    THEN [err |-> "IndexError", val |-> 0, pos |-> pos]
    ELSE LET byte == delta_data[pos + 1]
             acc2 == acc + Shl(byte % 128, shift)
         IN IF byte < 128
            THEN [err |-> "none", val |-> acc2, pos |-> pos + 1]
            ELSE ReadDeltaSize(delta_data, pos + 1, shift + 7, acc2)

\* lines 265-286: the optional offset bytes (bits 0..3 of cmd) and size
\* bytes (bits 4..6 of cmd) of a copy instruction, in order
RECURSIVE ReadCopyArgs(_, _, _, _, _, _)
ReadCopyArgs(delta_data, pos, cmd, k, copy_offset, copy_size) ==
    IF k = 7
    THEN [err |-> "none", off |-> copy_offset, size |-> copy_size, pos |-> pos]
    ELSE IF ~BitSet(cmd, k)
    THEN ReadCopyArgs(delta_data, pos, cmd, k + 1, copy_offset, copy_size)
    ELSE IF pos >= Len(delta_data)
    THEN [err |-> "IndexError", off |-> 0, size |-> 0, pos |-> pos]
    ELSE LET byte == delta_data[pos + 1]
         IN IF k < 4
            THEN ReadCopyArgs(delta_data, pos + 1, cmd, k + 1,
                              copy_offset + Shl(byte, 8 * k), copy_size)
            ELSE ReadCopyArgs(delta_data, pos + 1, cmd, k + 1,
                              copy_offset, copy_size + Shl(byte, 8 * (k - 4)))

\* a copy that takes a size of 0 literally
CopySize_Literal(copy_size) == copy_size

\* lines 288-289
CopySize(copy_size) == IF copy_size = 0 THEN 65536 ELSE copy_size

\* line 291
CopyBytes(base_data, copy_offset, copy_size) ==
    Slice(base_data, copy_offset, copy_offset + copy_size)

\* line 293
InsertBytes(delta_data, pos, cmd) == Slice(delta_data, pos, pos + cmd)

\* lines 257-294: the instruction loop
RECURSIVE ApplyLoop(_, _, _, _)
ApplyLoop(base_data, delta_data, pos, result) ==
    IF pos >= Len(delta_data)
    THEN [err |-> "none", data |-> result]
    ELSE LET cmd == delta_data[pos + 1]
         IN IF cmd >= 128
            THEN LET a == ReadCopyArgs(delta_data, pos + 1, cmd, 0, 0, 0)
                 IN IF a.err # "none"
                    THEN [err |-> a.err, data |-> <<>>]
                    ELSE ApplyLoop(base_data, delta_data, a.pos,
                                   result \o CopyBytes(base_data, a.off,
                                                       CopySize(a.size)))
            ELSE ApplyLoop(base_data, delta_data, pos + 1 + cmd,
                           result \o InsertBytes(delta_data, pos + 1, cmd))

\* lines 225-302
ApplyDelta(base_data, delta_data) ==
    LET src == ReadDeltaSize(delta_data, 0, 0, 0)
    IN IF src.err # "none" THEN [err |-> src.err, data |-> <<>>]
       ELSE LET tgt == ReadDeltaSize(delta_data, src.pos, 0, 0)
            IN IF tgt.err # "none" THEN [err |-> tgt.err, data |-> <<>>]
               ELSE IF Len(base_data) # src.val
               THEN [err |-> "BaseSizeMismatch", data |-> <<>>]
               ELSE LET r == ApplyLoop(base_data, delta_data, tgt.pos, <<>>)
                    IN IF r.err # "none" THEN r
                       ELSE IF Len(r.data) # tgt.val
                       THEN [err |-> "TargetSizeMismatch", data |-> <<>>]
                       ELSE r

----------------------------------------------------------------------------
(* packfile.py: PackObject and PackfileParser._resolve_deltas *)

NoSha == 0

\* lines 12-18 (the offset field, which nothing reads, is left out)
PackObject(type, size, data, base_sha) ==
    [type |-> type, size |-> size, data |-> data, base_sha |-> base_sha]

\* a dict in insertion order: a sequence of [key, val] with distinct keys
DictHas(d, key) == \E i \in 1..Len(d) : d[i].key = key

DictGet(d, key) == d[CHOOSE i \in 1..Len(d) : d[i].key = key].val

DictSet(d, key, val) ==
    IF DictHas(d, key)
    THEN [i \in 1..Len(d) |-> IF d[i].key = key THEN [key |-> key, val |-> val] ELSE d[i]]
    ELSE Append(d, [key |-> key, val |-> val])

DictValues(d) == [i \in 1..Len(d) |-> d[i].val]

\* lines 162-171: sort the entries into bases and ref-deltas
RECURSIVE ClassifyBases(_, _)
ClassifyBases(objs, acc) ==
    IF objs = <<>> THEN acc
    ELSE LET obj == Head(objs)
         IN IF obj.type \in {"ofs_delta", "ref_delta"}
            THEN ClassifyBases(Tail(objs), acc)
            ELSE ClassifyBases(Tail(objs),
                               DictSet(acc, ObjectHash(obj.data, obj.type), obj))

ClassifyDeltas(objs) == SelectSeq(objs, LAMBDA obj : obj.type = "ref_delta")

\* line 178 and lines 179-182: the while test, and the start of a pass
EnterLoop(deltas) ==
    IF deltas # <<>>
    THEN /\ iteration' = iteration + 1
         /\ made_progress' = FALSE
         /\ remaining_deltas' = <<>>
         /\ didx' = 1
         /\ rpc' = "pass"
    ELSE /\ rpc' = "returned"
         /\ UNCHANGED <<iteration, made_progress, remaining_deltas, didx>>

\* a classification that registers only the bases that precede the first
\* delta of the pack
ResolveClassify_InPackOrder ==
    /\ rpc = "classify"
    /\ LET deltas == {i \in 1..Len(objects) : objects[i].type = "ref_delta"}
           first  == IF deltas = {} THEN Len(objects) + 1
                     ELSE CHOOSE i \in deltas : \A k \in deltas : i <= k
       IN base_objects' = ClassifyBases(SubSeq(objects, 1, first - 1), <<>>)
    /\ delta_objects' = ClassifyDeltas(objects)
    /\ EnterLoop(delta_objects')
    /\ UNCHANGED <<objects, rerr>>

\* lines 158-178
ResolveClassify ==
    /\ rpc = "classify"
    /\ base_objects' = ClassifyBases(objects, <<>>)
    /\ delta_objects' = ClassifyDeltas(objects)
    /\ EnterLoop(delta_objects')
    /\ UNCHANGED <<objects, rerr>>

\* line 186: base_objects.get(delta.base_sha or "")
BaseLookup(bases, delta) ==
    IF delta.base_sha # NoSha /\ DictHas(bases, delta.base_sha)
    THEN <<DictGet(bases, delta.base_sha)>>
    ELSE <<>>

\* lines 184-207: one turn of the for loop over delta_objects
ResolveStep ==
    /\ rpc = "pass"
    /\ didx <= Len(delta_objects)
    /\ LET delta == delta_objects[didx]
           found == BaseLookup(base_objects, delta)
       IN IF found = <<>>
          THEN /\ remaining_deltas' = Append(remaining_deltas, delta)
               /\ didx' = didx + 1
               /\ UNCHANGED <<base_objects, made_progress, rpc, rerr>>
          ELSE LET base_obj == found[1]
                   applied == ApplyDelta(base_obj.data, delta.data)
               IN IF applied.err # "none"
                  THEN /\ rpc' = "failed"
                       /\ rerr' = applied.err
                       /\ UNCHANGED <<base_objects, made_progress,
                                      remaining_deltas, didx>>
                  ELSE /\ base_objects' =
                            DictSet(base_objects,
                                    ObjectHash(applied.data, base_obj.type),
                                    PackObject(base_obj.type, Len(applied.data),
                                               applied.data, NoSha))
                       /\ made_progress' = TRUE
                       /\ didx' = didx + 1
                       /\ UNCHANGED <<remaining_deltas, rpc, rerr>>
    /\ UNCHANGED <<objects, delta_objects, iteration>>

\* an end of pass that gives up as soon as a delta is left over
ResolveEndPass_SinglePass ==
    /\ rpc = "pass"
    /\ didx > Len(delta_objects)
    /\ delta_objects' = remaining_deltas
    /\ IF remaining_deltas # <<>>
       THEN /\ rpc' = "failed"
            /\ rerr' = "Could not resolve all delta objects"
            /\ UNCHANGED <<iteration, made_progress, remaining_deltas, didx>>
       ELSE /\ EnterLoop(remaining_deltas)
            /\ UNCHANGED rerr
    /\ UNCHANGED <<objects, base_objects>>

\* an end of pass that never gives up
ResolveEndPass_NoGiveUp ==
    /\ rpc = "pass"
    /\ didx > Len(delta_objects)
    /\ delta_objects' = remaining_deltas
    /\ EnterLoop(remaining_deltas)
    /\ UNCHANGED <<objects, base_objects, rerr>>

\* lines 209-220 and the while test of line 178: the end of a pass
ResolveEndPass ==
    /\ rpc = "pass"
    /\ didx > Len(delta_objects)
    /\ delta_objects' = remaining_deltas
    /\ IF ~made_progress /\ remaining_deltas # <<>>
       THEN /\ rpc' = "failed"
            /\ rerr' = "Could not resolve all delta objects"
            /\ UNCHANGED <<iteration, made_progress, remaining_deltas, didx>>
       ELSE /\ EnterLoop(remaining_deltas)
            /\ UNCHANGED rerr
    /\ UNCHANGED <<objects, base_objects>>

----------------------------------------------------------------------------
(* Files and directories.  A path is a sequence of names, relative to the  *)
(* clone directory, which is the path <<>>; a name is a byte string.       *)

DotGit == <<46, 103, 105, 116>>
ObjectsName == <<111, 98, 106, 101, 99, 116, 115>>
RefsName == <<114, 101, 102, 115>>
HeadName == <<72, 69, 65, 68>>
HeadsName == <<104, 101, 97, 100, 115>>
MainName == <<109, 97, 105, 110>>

\* "ref: refs/heads/main\n"
HeadContent ==
    <<114, 101, 102, 58, 32>> \o RefsName \o <<47>> \o HeadsName \o <<47>>
        \o MainName \o <<10>>

DirNode == [kind |-> "dir", data |-> <<>>, perm |-> 493]
FileNode(data, perm) == [kind |-> "file", data |-> data, perm |-> perm]

Parent(path) == SubSeq(path, 1, Len(path) - 1)

IsDir(f, path) == path \in DOMAIN f /\ f[path].kind = "dir"

PutNode(f, path, node) ==
    [q \in DOMAIN f \cup {path} |-> IF q = path THEN node ELSE f[q]]

\* os.mkdir
MkDir(f, path) ==
    IF path \in DOMAIN f THEN [err |-> "FileExistsError", fs |-> f]
    ELSE IF path # <<>> /\ ~IsDir(f, Parent(path))
    THEN [err |-> "FileNotFoundError", fs |-> f]
    ELSE [err |-> "none", fs |-> PutNode(f, path, DirNode)]

\* os.makedirs(path, exist_ok=True)
RECURSIVE MakeDirs(_, _)
MakeDirs(f, path) ==
    IF path \in DOMAIN f
    THEN [err |-> IF f[path].kind = "dir" THEN "none" ELSE "FileExistsError",
          fs |-> f]
    ELSE IF path = <<>> THEN MkDir(f, path)
    ELSE LET up == MakeDirs(f, Parent(path))
         IN IF up.err # "none" THEN up ELSE MkDir(up.fs, path)

\* open(path, "w") or open(path, "wb"), write, close; a new file gets the
\* permission bits 0o644
WriteFile(f, path, data) ==
    IF path \in DOMAIN f
    THEN IF f[path].kind = "dir" THEN [err |-> "IsADirectoryError", fs |-> f]
         ELSE IF ~BitSet(f[path].perm, 7) THEN [err |-> "PermissionError", fs |-> f]
         ELSE [err |-> "none", fs |-> PutNode(f, path, FileNode(data, f[path].perm))]
    ELSE IF ~IsDir(f, Parent(path)) THEN [err |-> "FileNotFoundError", fs |-> f]
    ELSE [err |-> "none", fs |-> PutNode(f, path, FileNode(data, 420))]

\* os.chmod(path, mode): the permission bits are the low 12 bits of mode
Chmod(f, path, mode) ==
    PutNode(f, path, [f[path] EXCEPT !.perm = mode % 4096])

\* run the next file operation unless an earlier one raised
Then(r, Op(_)) == IF r.err # "none" THEN r ELSE Op(r.fs)

\* commands.py lines 33-38 with a fifth step
Init_WithHeads(f) ==
    Then(Then(Then(Then(MkDir(f, <<DotGit>>),
        LAMBDA g : MkDir(g, <<DotGit, ObjectsName>>)),
        LAMBDA g : MkDir(g, <<DotGit, RefsName>>)),
        LAMBDA g : WriteFile(g, <<DotGit, HeadName>>, HeadContent)),
        LAMBDA g : MkDir(g, <<DotGit, RefsName, HeadsName>>))

\* commands.py lines 33-38: init
InitRepo(f) ==
    Then(Then(Then(MkDir(f, <<DotGit>>),
        LAMBDA g : MkDir(g, <<DotGit, ObjectsName>>)),
        LAMBDA g : MkDir(g, <<DotGit, RefsName>>)),
        LAMBDA g : WriteFile(g, <<DotGit, HeadName>>, HeadContent))

----------------------------------------------------------------------------
(* Object store.  The disk is [fs, shards, store]: shards are the folders  *)
(* .git/objects/<folder> that exist, store maps an id to the bytes of the  *)
(* file .git/objects/<folder>/<filename>.                                  *)

\* object_hash[:2]: one of 256 folders
Folder(object_hash) == object_hash % 256

PutFile(st, id, bytes) ==
    [i \in DOMAIN st \cup {id} |-> IF i = id THEN bytes ELSE st[i]]

Written(err, id, disk) == [err |-> err, id |-> id, disk |-> disk]

\* a create_git_object that does not expect the folder to exist
CreateGitObject_Mkdir(disk, contents, obj_type) ==
    LET blob_object == BlobObject(contents, obj_type)
        object_hash == Sha1(blob_object)
        dirs == MakeDirs(disk.fs, <<DotGit, ObjectsName>>)
    IN IF dirs.err # "none" \/ Folder(object_hash) \in disk.shards
       THEN Written("FileExistsError", object_hash, disk)
       ELSE Written("none", object_hash,
                    [fs |-> dirs.fs,
                     shards |-> disk.shards \cup {Folder(object_hash)},
                     store |-> PutFile(disk.store, object_hash,
                                       ZlibCompress(blob_object))])

\* a create_git_object that frames every object as a blob
CreateGitObject_AsBlob(disk, contents, obj_type) ==
    LET blob_object == BlobObject(contents, "blob")
        object_hash == Sha1(blob_object)
        dirs == MakeDirs(disk.fs, <<DotGit, ObjectsName>>)
    IN IF dirs.err # "none" THEN Written(dirs.err, object_hash, disk)
       ELSE Written("none", object_hash,
                    [fs |-> dirs.fs,
                     shards |-> disk.shards \cup {Folder(object_hash)},
                     store |-> PutFile(disk.store, object_hash,
                                       ZlibCompress(blob_object))])

\* git_object.py lines 6-22 with should_write=True
CreateGitObject(disk, contents, obj_type) ==
    LET blob_object == BlobObject(contents, obj_type)
        object_hash == Sha1(blob_object)
        dirs == MakeDirs(disk.fs, <<DotGit, ObjectsName>>)
    IN IF dirs.err # "none" THEN Written(dirs.err, object_hash, disk)
       ELSE Written("none", object_hash,
                    [fs |-> dirs.fs,
                     shards |-> disk.shards \cup {Folder(object_hash)},
                     store |-> PutFile(disk.store, object_hash,
                                       ZlibCompress(blob_object))])

\* a write_contents_to_disk that stores the contents without their header
WriteContentsToDisk_Bare(disk, contents, object_type) ==
    LET blob_object == EncodeObject(contents, object_type)
        object_hash == Sha1(blob_object)
    IN IF Folder(object_hash) \notin disk.shards
          /\ ~IsDir(disk.fs, <<DotGit, ObjectsName>>)
       THEN Written("FileNotFoundError", object_hash, disk)
       ELSE Written("none", object_hash,
                    [fs |-> disk.fs,
                     shards |-> disk.shards \cup {Folder(object_hash)},
                     store |-> PutFile(disk.store, object_hash,
                                       ZlibCompress(contents))])

\* writer.py lines 8-21
WriteContentsToDisk(disk, contents, object_type) ==
    LET blob_object == EncodeObject(contents, object_type)
        object_hash == Sha1(blob_object)
    IN IF Folder(object_hash) \notin disk.shards
          /\ ~IsDir(disk.fs, <<DotGit, ObjectsName>>)
       THEN Written("FileNotFoundError", object_hash, disk)
       ELSE Written("none", object_hash,
                    [fs |-> disk.fs,
                     shards |-> disk.shards \cup {Folder(object_hash)},
                     store |-> PutFile(disk.store, object_hash,
                                       ZlibCompress(blob_object))])

----------------------------------------------------------------------------
(* Reading objects back: commands.py _read_git_object and _parse_tree *)

\* bytes.index / bytes.find from position from (0-based), -1 if absent
IndexOf(bytes, b, from) ==
    LET hits == {i \in from..(Len(bytes) - 1) : bytes[i + 1] = b}
    IN IF hits = {} THEN -1 ELSE CHOOSE i \in hits : \A j \in hits : i <= j

\* bytes.split(sep) for a one-byte separator
RECURSIVE SplitOn(_, _)
SplitOn(bytes, sep) ==
    LET at == IndexOf(bytes, sep, 0)
    IN IF at < 0 THEN <<bytes>>
       ELSE <<Slice(bytes, 0, at)>> \o SplitOn(Slice(bytes, at + 1, Len(bytes)), sep)

\* str.split(): the pieces between runs of blanks
SplitBlank(bytes) == SelectSeq(SplitOn(bytes, 32), LAMBDA piece : piece # <<>>)

StartsWith(bytes, prefix) ==
    Len(bytes) >= Len(prefix) /\ SubSeq(bytes, 1, Len(prefix)) = prefix

NoObject(err) == [err |-> err, type |-> <<>>, content |-> <<>>]

\* commands.py lines 261-274
ReadGitObject(st, sha1) ==
    IF sha1 \notin DOMAIN st THEN NoObject("FileNotFoundError")
    ELSE LET raw == ZlibDecompress(st[sha1])
             header_end == IndexOf(raw, 0, 0)
         IN IF header_end < 0 THEN NoObject("ValueError")
            ELSE LET parts == SplitBlank(Slice(raw, 0, header_end))
                 IN IF Len(parts) # 2 THEN NoObject("ValueError")
                    ELSE [err |-> "none", type |-> parts[1],
                          content |-> Slice(raw, header_end + 1, Len(raw))]

\* commands.py lines 277-295; an id is one position of data, so that the
\* 20 bytes after the NUL are the element after it
RECURSIVE ParseTree(_, _, _)
ParseTree(data, i, entries) ==
    IF i >= Len(data) THEN [err |-> "none", entries |-> entries]
    ELSE LET null_pos == IndexOf(data, 0, i)
         IN IF null_pos < 0 THEN [err |-> "ValueError", entries |-> <<>>]
            ELSE LET parts == SplitOn(Slice(data, i, null_pos), 32)
                     sha1 == IF null_pos + 2 <= Len(data)
                             THEN data[null_pos + 2] ELSE NoSha
                 IN IF Len(parts) # 2 THEN [err |-> "ValueError", entries |-> <<>>]
                    ELSE ParseTree(data, null_pos + 2,
                                   Append(entries, <<parts[1], parts[2], sha1>>))

----------------------------------------------------------------------------
(* Delta streams built from instructions (the producer's side of the       *)
(* format that _apply_delta reads)                                         *)

\* a size as 7-bit groups, least significant first, bit 7 = more follows
RECURSIVE EncodeDeltaSize(_)
EncodeDeltaSize(n) ==
    IF n < 128 THEN <<n>> ELSE <<128 + (n % 128)>> \o EncodeDeltaSize(n \div 128)

\* byte k of a little-endian number
ByteOf(n, k) == (n \div (2 ^ (8 * k))) % 256

\* the header bits a copy instruction must set: one per non-zero byte
NeededBits(ins) ==
    {k \in 0..3 : ByteOf(ins.off, k) # 0}
        \cup {4 + k : k \in {j \in 0..2 : ByteOf(ins.size, j) # 0}}

RECURSIVE CopyArgBytes(_, _)
CopyArgBytes(ins, k) ==
    IF k = 7 THEN <<>>
    ELSE (IF k \in ins.mask
          THEN <<IF k < 4 THEN ByteOf(ins.off, k) ELSE ByteOf(ins.size, k - 4)>>
          ELSE <<>>) \o CopyArgBytes(ins, k + 1)

RECURSIVE MaskByte(_, _)
MaskByte(mask, k) ==
    IF k = 7 THEN 0
    ELSE (IF k \in mask THEN 2 ^ k ELSE 0) + MaskByte(mask, k + 1)

EncodeInstr(ins) ==
    IF ins.op = "copy"
    THEN <<128 + MaskByte(ins.mask, 0)>> \o CopyArgBytes(ins, 0)
    ELSE <<Len(ins.bytes)>> \o ins.bytes

\* what an instruction appends to the target
InstrOutput(base, ins) ==
    IF ins.op = "copy"
    THEN SubSeq(base, ins.off + 1,
                ins.off + (IF ins.size = 0 THEN 65536 ELSE ins.size))
    ELSE ins.bytes

TargetOf(base, instrs) ==
    Flatten([i \in 1..Len(instrs) |-> InstrOutput(base, instrs[i])])

EncodeDelta(base, instrs) ==
    EncodeDeltaSize(Len(base)) \o EncodeDeltaSize(Len(TargetOf(base, instrs)))
        \o Flatten([i \in 1..Len(instrs) |-> EncodeInstr(instrs[i])])

----------------------------------------------------------------------------
(* Inputs of the delta runs *)

DeltaAlphabet == {65, 66}
LiteralAlphabet == {0, 144}
CopyOffsets == {0, 1, 256, 65536}
CopySizeFields == {0, 1, 2, 65536}
ExtraMasks == {{}, {3}, {0, 5}}

SmallBases == SeqsUpTo(DeltaAlphabet, MaxBaseLen)
BigBase == [i \in 1..BigBaseLen |-> 65 + (i % 2)]

\* copy instructions that stay inside the base, in every chosen encoding
CopyInstrs(base) ==
    {[op |-> "copy", off |-> c[1], size |-> c[2],
      mask |-> NeededBits([off |-> c[1], size |-> c[2]]) \cup c[3]] :
        c \in {x \in CopyOffsets \X CopySizeFields \X ExtraMasks :
                 x[1] + (IF x[2] = 0 THEN 65536 ELSE x[2]) <= Len(base)}}

InsertInstrs ==
    {[op |-> "insert", bytes |-> b] : b \in SeqsUpTo(LiteralAlphabet, 2) \ {<<>>}}

ValidInstrs(base) == CopyInstrs(base) \cup InsertInstrs

\* the instruction lists tried on a base: up to MaxInstrs instructions on a
\* small base, a single instruction on the large one
InstrListsFor(base) ==
    IF Len(base) <= MaxBaseLen
    THEN SeqsUpTo(ValidInstrs(base), MaxInstrs)
    ELSE {<<i>> : i \in ValidInstrs(base)}

\* the command byte 0, which the format reserves: in a delta stream it reads
\* as an insert of no byte
ReservedCmd == [op |-> "insert", bytes |-> <<>>]

\* instruction lists on a small base with the reserved command among them
ReservedListsFor(base) ==
    IF Len(base) <= MaxBaseLen
    THEN {l \in SeqsUpTo(ValidInstrs(base) \cup {ReservedCmd}, MaxInstrs) :
            \E i \in 1..Len(l) : l[i] = ReservedCmd}
    ELSE {}

----------------------------------------------------------------------------
(* commands.py: checkout and _checkout_tree *)

Mode40000 == <<52, 48, 48, 48, 48>>
Mode100644 == <<49, 48, 48, 54, 52, 52>>
Mode100755 == <<49, 48, 48, 55, 53, 53>>
Mode120000 == <<49, 50, 48, 48, 48, 48>>

\* int(mode, 8), -1 where it raises ValueError
RECURSIVE OctalValue(_, _)
OctalValue(digits, acc) ==
    IF digits = <<>> THEN acc
    ELSE IF Head(digits) \notin 48..55 THEN -1
    ELSE OctalValue(Tail(digits), acc * 8 + (Head(digits) - 48))

ParseOctal(digits) == IF digits = <<>> THEN -1 ELSE OctalValue(digits, 0)

\* a checkout that leaves every file with the permission bits open() gave it
WriteBlob_NoChmod(f, st, mode, full_path, sha1) ==
    LET o == ReadGitObject(st, sha1)
    IN IF o.err # "none" THEN [err |-> o.err, fs |-> f]
       ELSE IF o.type # KindBytes("blob") THEN [err |-> "ValueError", fs |-> f]
       ELSE WriteFile(f, full_path, o.content)

\* lines 249-258: the file of a tree entry that is not a directory
WriteBlob(f, st, mode, full_path, sha1) ==
    LET o == ReadGitObject(st, sha1)
    IN IF o.err # "none" THEN [err |-> o.err, fs |-> f]
       ELSE IF o.type # KindBytes("blob") THEN [err |-> "ValueError", fs |-> f]
       ELSE LET w == WriteFile(f, full_path, o.content)
            IN IF w.err # "none" THEN w
               ELSE IF ParseOctal(mode) < 0 THEN [err |-> "ValueError", fs |-> w.fs]
               ELSE [err |-> "none", fs |-> Chmod(w.fs, full_path, ParseOctal(mode))]

\* lines 236-258
RECURSIVE CheckoutTree(_, _, _, _), CheckoutEntries(_, _, _, _)
CheckoutEntries(f, st, entries, path) ==
    IF entries = <<>> THEN [err |-> "none", fs |-> f]
    ELSE LET mode == Head(entries)[1]
             full_path == Append(path, Head(entries)[2])
             sha1 == Head(entries)[3]
             r == IF mode = Mode40000
                  THEN LET d == MakeDirs(f, full_path)
                       IN IF d.err # "none" THEN d
                          ELSE CheckoutTree(d.fs, st, sha1, full_path)
                  ELSE WriteBlob(f, st, mode, full_path, sha1)
         IN IF r.err # "none" THEN r
            ELSE CheckoutEntries(r.fs, st, Tail(entries), path)

CheckoutTree(f, st, tree_sha1, path) ==
    LET o == ReadGitObject(st, tree_sha1)
    IN IF o.err # "none" THEN [err |-> o.err, fs |-> f]
       ELSE IF o.type # KindBytes("tree") THEN [err |-> "ValueError", fs |-> f]
       ELSE LET parsed == ParseTree(o.content, 0, <<>>)
            IN IF parsed.err # "none" THEN [err |-> parsed.err, fs |-> f]
               ELSE CheckoutEntries(f, st, parsed.entries, path)

TreeWord == <<116, 114, 101, 101, 32>>

\* lines 219-233
Checkout(f, st, commit_sha1) ==
    LET o == ReadGitObject(st, commit_sha1)
    IN IF o.err # "none" THEN [err |-> o.err, fs |-> f]
       ELSE IF o.type # KindBytes("commit") THEN [err |-> "ValueError", fs |-> f]
       ELSE LET tree_lines == SelectSeq(SplitOn(o.content, 10),
                                        LAMBDA line : StartsWith(line, TreeWord))
            IN IF tree_lines = <<>> THEN [err |-> "StopIteration", fs |-> f]
               ELSE LET words == SplitBlank(tree_lines[1])
                    IN IF Len(words) < 2 THEN [err |-> "IndexError", fs |-> f]
                       ELSE IF Len(words[2]) # 1
                       THEN [err |-> "FileNotFoundError", fs |-> f]
                       ELSE CheckoutTree(f, st, words[2][1], <<>>)

----------------------------------------------------------------------------
(* pkt_line.py and commands.py ls_remote_head *)

HexDigit(d) == IF d < 10 THEN 48 + d ELSE 87 + d

\* "{0:x}".format(n).zfill(4)
RECURSIVE HexOf(_)
HexOf(n) == IF n < 16 THEN <<HexDigit(n)>> ELSE HexOf(n \div 16) \o <<HexDigit(n % 16)>>
Hex4(n) == [i \in 1..(4 - Min(4, Len(HexOf(n)))) |-> 48] \o HexOf(n)

\* pkt_line.py lines 1-5
EncodePktLine(line) == Hex4(Len(line) + 4) \o line

HexValue(c) ==
    IF c \in 48..57 THEN c - 48
    ELSE IF c \in 97..102 THEN c - 87
    ELSE IF c \in 65..70 THEN c - 55
    ELSE -1

\* int(digits, 16), -1 where it raises ValueError
RECURSIVE ParseHex(_, _)
ParseHex(digits, acc) ==
    IF digits = <<>> THEN acc
    ELSE IF HexValue(Head(digits)) < 0 THEN -1
    ELSE ParseHex(Tail(digits), acc * 16 + HexValue(Head(digits)))

\* pkt_line.py lines 8-13: [err, flush, text]
DecodePktLine(line) ==
    LET length == IF line = <<>> THEN -1 ELSE ParseHex(Slice(line, 0, 4), 0)
    IN IF length < 0 THEN [err |-> "ValueError", flush |-> FALSE, text |-> <<>>]
       ELSE IF length = 0 THEN [err |-> "none", flush |-> TRUE, text |-> <<>>]
       ELSE [err |-> "none", flush |-> FALSE, text |-> Slice(line, 4, length)]

ServiceLine == <<35, 32, 115, 101, 114, 118, 105, 99, 101, 61, 103, 105, 116, 45, 117, 112, 108, 111, 97, 100, 45, 112, 97, 99, 107>>
HeadWord == <<72, 69, 65, 68>>

\* sub in bytes
Contains(bytes, sub) ==
    \E i \in 0..(Len(bytes) - Len(sub)) : SubSeq(bytes, i + 1, i + Len(sub)) = sub

\* commands.py lines 197-200: the capability lines, up to the flush packet
RECURSIVE SkipCapabilities(_)
SkipCapabilities(lines) ==
    IF lines = <<>> THEN "none"
    ELSE LET parsed == DecodePktLine(Head(lines))
         IN IF parsed.err # "none" THEN parsed.err
            ELSE IF parsed.flush THEN "none"
            ELSE SkipCapabilities(Tail(lines))

\* commands.py lines 211-216; the 40 characters line[4:44] are one position
RECURSIVE FindHead(_)
FindHead(lines) ==
    IF lines = <<>> THEN [err |-> "HEAD ref not found!", head |-> NoSha]
    ELSE IF Contains(Head(lines), HeadWord)
    THEN [err |-> "none",
          head |-> IF Len(Head(lines)) >= 5 THEN Head(lines)[5] ELSE NoSha]
    ELSE FindHead(Tail(lines))

\* commands.py lines 185-216: info is the response to GET info/refs, refs
\* the response to the ls-refs command
LsRemoteHead(info, refs) ==
    LET lines == SplitOn(info, 10)
        first_line == DecodePktLine(lines[1])
    IN IF first_line.err # "none" THEN [err |-> first_line.err, head |-> NoSha]
       ELSE IF first_line.flush \/ first_line.text # ServiceLine
       THEN [err |-> "AssertionError", head |-> NoSha]
       ELSE IF Len(lines) < 2 THEN [err |-> "IndexError", head |-> NoSha]
       ELSE LET second_line == DecodePktLine(lines[2])
            IN IF second_line.err # "none" THEN [err |-> second_line.err, head |-> NoSha]
               ELSE IF ~second_line.flush THEN [err |-> "AssertionError", head |-> NoSha]
               ELSE IF SkipCapabilities(SubSeq(lines, 3, Len(lines))) # "none"
               THEN [err |-> SkipCapabilities(SubSeq(lines, 3, Len(lines))),
                     head |-> NoSha]
               ELSE FindHead(SplitOn(refs, 10))

----------------------------------------------------------------------------
(* packfile.py: _read_varint and _parse_object, on an entry of the pack    *)
(* given as [hdr, base, data]: the bytes of its type-and-size header, the  *)
(* base id that follows the header of a ref-delta, and the payload its     *)
(* zlib stream inflates to                                                 *)

\* lines 96-105
TypeName(type_id) ==
    CASE type_id = 1 -> "commit"
      [] type_id = 2 -> "tree"
      [] type_id = 3 -> "blob"
      [] type_id = 4 -> "tag"
      [] type_id = 6 -> "ofs_delta"
      [] type_id = 7 -> "ref_delta"
      [] type_id = 0 -> "unknown_0"
      [] type_id = 5 -> "unknown_5"

\* lines 91-94
RECURSIVE ReadSizeTail(_, _, _, _)
ReadSizeTail(hdr, at, shift, size) ==
    IF hdr[at] < 128 THEN size
    ELSE ReadSizeTail(hdr, at + 1, shift + 7,
                      size + Shl(hdr[at + 1] % 128, shift))

\* lines 84-105
ReadVarint(hdr) ==
    [size |-> ReadSizeTail(hdr, 1, 4, hdr[1] % 16),
     type |-> TypeName((hdr[1] \div 16) % 8)]

\* lines 125-154
ParseObject(entry) ==
    LET v == ReadVarint(entry.hdr)
    IN PackObject(v.type, v.size, entry.data,
                  IF v.type = "ref_delta" THEN entry.base ELSE NoSha)

\* the header bytes _read_varint reads back as (type_id, size)
RECURSIVE EncodeSizeTail(_)
EncodeSizeTail(n) ==
    IF n < 128 THEN <<n>> ELSE <<128 + (n % 128)>> \o EncodeSizeTail(n \div 128)

EncodeEntryHeader(type_id, size) ==
    IF size < 16 THEN <<type_id * 16 + size>>
    ELSE <<128 + type_id * 16 + (size % 16)>> \o EncodeSizeTail(size \div 16)

WireEntry(type_id, data) ==
    [hdr |-> EncodeEntryHeader(type_id, Len(data)), base |-> NoSha, data |-> data]

WireRefDelta(base_type, base_data, instrs) ==
    LET delta == EncodeDelta(base_data, instrs)
    IN [hdr |-> EncodeEntryHeader(7, Len(delta)),
        base |-> ObjectHash(base_data, base_type), data |-> delta]

----------------------------------------------------------------------------
(* Inputs of the resolver runs: pack entries as _parse_object returns them *)

Copy(off, size) ==
    [op |-> "copy", off |-> off, size |-> size,
     mask |-> NeededBits([off |-> off, size |-> size])]

Insert(bytes) == [op |-> "insert", bytes |-> bytes]

PlainEntry(type, data) == PackObject(type, Len(data), data, NoSha)

\* a ref-delta against the object (base_type, base_data)
RefDelta(base_type, base_data, instrs) ==
    LET delta == EncodeDelta(base_data, instrs)
    IN PackObject("ref_delta", Len(delta), delta, ObjectHash(base_data, base_type))

\* a chain: delta k copies the whole output of delta k-1 and adds one byte
RECURSIVE ChainTarget(_)
ChainInstrs(k) == <<Copy(0, k + 1), Insert(<<72 + k>>)>>
ChainTarget(k) ==
    IF k = 0 THEN <<65, 66>>
    ELSE TargetOf(ChainTarget(k - 1), ChainInstrs(k))
ChainDelta(k) == RefDelta("blob", ChainTarget(k - 1), ChainInstrs(k))

BlobAB == PlainEntry("blob", <<65, 66>>)
CommitC == PlainEntry("commit", <<67>>)
\* an entry of type_id 5 with the payload of CommitC
UnknownEntry == PlainEntry("unknown_5", <<67>>)
OfsEntry == PackObject("ofs_delta", 4, <<1, 1, 1, 72>>, NoSha)
\* a delta on the commit <<67>>, not on UnknownEntry with the same payload
DeltaOnCommit == RefDelta("commit", <<67>>, <<Copy(0, 1), Copy(0, 1)>>)
\* a delta whose base is in no pack
DeltaNoBase == RefDelta("blob", <<90>>, <<Insert(<<72>>)>>)
\* a delta on BlobAB whose header declares a base of 3 bytes
DeltaBadBase ==
    PackObject("ref_delta", 4, <<3, 1, 1, 72>>, ObjectHash(<<65, 66>>, "blob"))

PackUniverse ==
    {BlobAB, CommitC, OfsEntry,
     DeltaOnCommit, DeltaNoBase, DeltaBadBase}
        \cup {ChainDelta(k) : k \in 1..ChainDepth}

----------------------------------------------------------------------------
(* Resolver runs: _resolve_deltas on a list of parsed entries *)

NoError == [at |-> "none", err |-> "none"]
NoOutput == [err |-> "none", id |-> NoSha]
NoWrite == [type |-> "none", contents |-> <<>>, ret |-> NoSha,
            existed |-> FALSE, err |-> "none"]

\* nothing has run yet: the clone directory does not exist
CloneFresh ==
    /\ cpc = "idle"
    /\ cerr = NoError
    /\ attempt = 0
    /\ prior = "none"
    /\ head_ref = NoSha
    /\ widx = 0
    /\ fs = <<>>
    /\ shards = {}
    /\ store = <<>>
    /\ out = NoOutput
    /\ wrote = NoWrite
    /\ nops = 0

CloneIdle ==
    /\ repo = <<>>
    /\ server = [info |-> <<>>, refs |-> <<>>, pack |-> <<>>]
    /\ CloneFresh

StreamIdle ==
    /\ sent = [junk |-> <<>>, signed |-> FALSE, entries |-> <<>>, cut |-> 0]
    /\ stream = <<>>
    /\ cursor = 0
    /\ spc = "idle"
    /\ serr = "none"
    /\ num_objects = 0
    /\ decoded = <<>>
    /\ starts = <<>>
    /\ scans = 0

DeltaIdle ==
    /\ dBase = <<>>
    /\ dInstrs = <<>>
    /\ dDelta = <<>>
    /\ dResult = [err |-> "none", data |-> <<>>]
    /\ dpc = "idle"

ResolveIdle ==
    /\ objects = <<>>
    /\ base_objects = <<>>
    /\ delta_objects = <<>>
    /\ remaining_deltas = <<>>
    /\ didx = 0
    /\ made_progress = FALSE
    /\ iteration = 0
    /\ rpc = "idle"
    /\ rerr = "none"

ResolveInit ==
    /\ StreamIdle
    /\ DeltaIdle
    /\ ResolveIdle
    /\ CloneIdle

\* parse_objects, line 308: the entries of the pack, in pack order
ResolveParsed ==
    /\ rpc = "idle"
    /\ objects' \in DistinctSeqs(PackUniverse, MaxPack)
    /\ rpc' = "classify"
    /\ UNCHANGED <<base_objects, delta_objects, remaining_deltas, didx,
                   made_progress, iteration, rerr>>

ResolveNext ==
    \/ ResolveParsed /\ UNCHANGED <<streamVars, deltaVars, cloneVars>>
    \/ ResolveClassify /\ UNCHANGED <<streamVars, deltaVars, cloneVars>>
    \/ ResolveStep /\ UNCHANGED <<streamVars, deltaVars, cloneVars>>
    \/ ResolveEndPass /\ UNCHANGED <<streamVars, deltaVars, cloneVars>>

SpecResolve == ResolveInit /\ [][ResolveNext]_vars

----------------------------------------------------------------------------
(* What a pack denotes, independent of the order of its entries *)

Obj(type, data) == [sha |-> ObjectHash(data, type), type |-> type, data |-> data]

PlainObjs(objs) ==
    {Obj(o.type, o.data) :
        o \in {x \in Range(objs) : x.type \notin {"ofs_delta", "ref_delta"}}}

RefDeltas(objs) == {x \in Range(objs) : x.type = "ref_delta"}

\* the objects one more round of delta application adds to known
Derived(known, deltas) ==
    {Obj(p[2].type, ApplyDelta(p[2].data, p[1].data).data) :
        p \in {q \in deltas \X known :
                 /\ q[1].base_sha = q[2].sha
                 /\ ApplyDelta(q[2].data, q[1].data).err = "none"}}

RECURSIVE Closure(_, _)
Closure(known, deltas) ==
    LET next == known \cup Derived(known, deltas)
    IN IF next = known THEN known ELSE Closure(next, deltas)

PackClosure(objs) == Closure(PlainObjs(objs), RefDeltas(objs))

\* every ref-delta has its base among the objects of the pack and applies to it
WellFormedPack(objs) ==
    \A d \in RefDeltas(objs) :
        \E k \in PackClosure(objs) :
            k.sha = d.base_sha /\ ApplyDelta(k.data, d.data).err = "none"

\* what the resolver holds, as a set of (id, kind, payload)
Resolved == {Obj(v.type, v.data) : v \in Range(DictValues(base_objects))}

ResolvedIds == {base_objects[i].key : i \in 1..Len(base_objects)}

ResolverDone == rpc \in {"returned", "failed"}

\* C3: whatever the order of the entries of a pack whose ref-deltas all have
\* their base in the pack (a plain entry or the output of another delta, at
\* any depth), the resolver returns, and returns the objects of the pack.
C3_OrderIndependent ==
    (ResolverDone /\ WellFormedPack(objects)) =>
        /\ rpc = "returned"
        /\ Resolved = PackClosure(objects)
        /\ \A i \in 1..Len(base_objects) :
              base_objects[i].key =
                  ObjectHash(base_objects[i].val.data, base_objects[i].val.type)

\* a chain of two deltas was resolved although each delta came before its
\* base in the pack, which took a second pass
C3_Witness ==
    /\ rpc = "returned"
    /\ objects = <<ChainDelta(2), ChainDelta(1), BlobAB>>
    /\ iteration = 2
    /\ Cardinality(Resolved) = 3

\* the ref-delta d of the pack has been resolved: its base and its output
\* are both held by the resolver
DeltaResolved(d) ==
    /\ DictHas(base_objects, d.base_sha)
    /\ LET base_obj == DictGet(base_objects, d.base_sha)
           applied == ApplyDelta(base_obj.data, d.data)
       IN /\ applied.err = "none"
          /\ ObjectHash(applied.data, base_obj.type) \in ResolvedIds

ReturnedResolved ==
    /\ rpc = "returned"
    /\ rerr = "none"
    /\ delta_objects = <<>>
    /\ \A d \in RefDeltas(objects) : DeltaResolved(d)

FailedUnresolved ==
    /\ rpc = "failed"
    /\ rerr = "Could not resolve all delta objects"
    /\ ~made_progress
    /\ delta_objects # <<>>
    /\ \A i \in 1..Len(delta_objects) :
          ~DictHas(base_objects, delta_objects[i].base_sha)

\* _apply_delta raised on a delta whose base was found
FailedApplying ==
    /\ rpc = "failed"
    /\ rerr \in {"BaseSizeMismatch", "TargetSizeMismatch", "IndexError"}
    /\ didx \in 1..Len(delta_objects)
    /\ DictHas(base_objects, delta_objects[didx].base_sha)
    /\ ApplyDelta(DictGet(base_objects, delta_objects[didx].base_sha).data,
                  delta_objects[didx].data).err = rerr

----------------------------------------------------------------------------
(* Delta runs: a delta stream is built for a base and applied to it *)

DeltaInit ==
    /\ StreamIdle
    /\ ResolveIdle
    /\ CloneIdle
    /\ dBase \in SmallBases \cup {BigBase}
    /\ dInstrs \in InstrListsFor(dBase) \cup ReservedListsFor(dBase)
    /\ dDelta = <<>>
    /\ dResult = [err |-> "none", data |-> <<>>]
    /\ dpc = "chosen"

DeltaEncode ==
    /\ dpc = "chosen"
    /\ dDelta' = EncodeDelta(dBase, dInstrs)
    /\ dpc' = "encoded"
    /\ UNCHANGED <<dBase, dInstrs, dResult>>
    /\ UNCHANGED <<streamVars, resolveVars, cloneVars>>

DeltaApply ==
    /\ dpc = "encoded"
    /\ dResult' = ApplyDelta(dBase, dDelta)
    /\ dpc' = "applied"
    /\ UNCHANGED <<dBase, dInstrs, dDelta>>
    /\ UNCHANGED <<streamVars, resolveVars, cloneVars>>

DeltaNext == DeltaEncode \/ DeltaApply

SpecDelta == DeltaInit /\ [][DeltaNext]_vars

----------------------------------------------------------------------------
(* C4: applying a delta stream of valid copy and insert instructions to   *)
(* the base it was built for returns exactly the target the instructions  *)
(* describe.                                                              *)
C4_DeltaYieldsTarget ==
    dpc = "applied" =>
        /\ dResult.err = "none"
        /\ dResult.data = TargetOf(dBase, dInstrs)

\* a copy whose size field is 0 (0x10000 bytes) has been applied
C4_Witness ==
    /\ dpc = "applied"
    /\ dResult.err = "none"
    /\ Len(dResult.data) = 65536
    /\ \E i \in 1..Len(dInstrs) : dInstrs[i].op = "copy" /\ dInstrs[i].size = 0

----------------------------------------------------------------------------
(* The repository a server holds and what it sends (protocol_v2.py carries *)
(* the bytes; ls_remote_head and fetch_packfile read them)                 *)

\* an entry of a tree of the served repository: a file with the bytes blob,
\* or a directory with the entries sub
File(mode, name, blob) == [mode |-> mode, name |-> name, blob |-> blob, sub |-> <<>>]
Dir(name, sub) == [mode |-> Mode40000, name |-> name, blob |-> <<>>, sub |-> sub]

\* the payload of a tree object: TreeEntry.to_bytes, commands.py lines 22-29
RECURSIVE TreePayload(_)
EntryId(e) ==
    IF e.mode = Mode40000 THEN ObjectHash(TreePayload(e.sub), "tree")
    ELSE ObjectHash(e.blob, "blob")
TreePayload(entries) ==
    IF entries = <<>> THEN <<>>
    ELSE LET e == Head(entries)
         IN e.mode \o <<32>> \o e.name \o <<0, EntryId(e)>> \o TreePayload(Tail(entries))

AuthorLines ==
    <<97, 117, 116, 104, 111, 114, 32, 101, 97, 118, 101, 114, 100, 101, 106, 97, 32, 60, 101, 97, 118, 101, 114, 100, 101, 106, 97, 64, 103, 109, 97, 105, 108, 46, 99, 111, 109, 62, 32, 49, 55, 51, 56, 57, 50, 51, 56, 54, 50, 32, 45, 48, 51, 48, 48, 10>>
    \o <<99, 111, 109, 109, 105, 116, 116, 101, 114, 32, 101, 97, 118, 101, 114, 100, 101, 106, 97, 32, 60, 101, 97, 118, 101, 114, 100, 101, 106, 97, 64, 103, 109, 97, 105, 108, 46, 99, 111, 109, 62, 32, 49, 55, 51, 56, 57, 50, 51, 56, 54, 50, 32, 45, 48, 51, 48, 48, 10>>

\* the payload of a commit object, as commit_tree lays it out (lines 130-141)
CommitPayload(tree_sha, parents, message) ==
    TreeWord \o <<tree_sha, 10>> \o parents \o AuthorLines \o <<10>> \o message \o <<10>>

ParentLine(parent) == <<112, 97, 114, 101, 110, 116, 32, parent, 10>>

RootCommit(entries) == CommitPayload(ObjectHash(TreePayload(entries), "tree"), <<>>, <<109>>)

\* the objects under a tree, as [type_id, data]
RECURSIVE TreeObjects(_)
TreeObjects(entries) ==
    IF entries = <<>> THEN <<>>
    ELSE LET e == Head(entries)
         IN (IF e.mode = Mode40000
             THEN <<[type_id |-> 2, data |-> TreePayload(e.sub)]>> \o TreeObjects(e.sub)
             ELSE <<[type_id |-> 3, data |-> e.blob]>>)
            \o TreeObjects(Tail(entries))

\* a pack holds an object once
RECURSIVE Dedup(_)
Dedup(seq) ==
    IF seq = <<>> THEN <<>>
    ELSE LET front == Dedup(SubSeq(seq, 1, Len(seq) - 1))
             last == seq[Len(seq)]
         IN IF last \in Range(front) THEN front ELSE Append(front, last)

RepoObjects(entries) ==
    Dedup(<<[type_id |-> 1, data |-> RootCommit(entries)],
            [type_id |-> 2, data |-> TreePayload(entries)]>> \o TreeObjects(entries))

\* the pack of a repository, no entry a delta
PlainPack(entries) ==
    [i \in 1..Len(RepoObjects(entries)) |->
        WireEntry(RepoObjects(entries)[i].type_id, RepoObjects(entries)[i].data)]

FlushPkt == <<48, 48, 48, 48>>
VersionLine == <<118, 101, 114, 115, 105, 111, 110, 32, 50>>

\* the response to GET info/refs?service=git-upload-pack
InfoRefs(service) ==
    EncodePktLine(service \o <<10>>) \o FlushPkt
        \o EncodePktLine(VersionLine \o <<10>>) \o FlushPkt

\* the response to ls-refs: "<length><id> <name>" lines
RefLine(id, name) == <<48, 48, 51, 50, id, 32>> \o name \o <<10>>
LsRefs(id, name) == RefLine(id, name) \o FlushPkt

HeadId(entries) == ObjectHash(RootCommit(entries), "commit")

Serve(entries, pack) ==
    [info |-> InfoRefs(ServiceLine),
     refs |-> LsRefs(HeadId(entries), HeadWord),
     pack |-> pack]

----------------------------------------------------------------------------
(* commands.py clone, lines 147-182, step by step.  The process can be     *)
(* killed between two steps, and clone can be run again on the same        *)
(* directory against the same server.                                      *)

MaxAttempts == 2    \* most runs of clone on the directory
MaxLocalOps == 2    \* most local commands run in the clone directory

Disk == [fs |-> fs, shards |-> shards, store |-> store]

CloneSteps == {"mkdir", "init", "discover", "fetch", "ingest", "checkout"}

\* the exception _resolve_deltas raised went through parse_packfile and clone
CloneRaised == cpc = "failed" \/ (cpc = "ingest" /\ rpc = "failed")

CloneRunning == cpc \in CloneSteps /\ ~CloneRaised

CloneEnded == cpc \in {"done", "aborted"} \/ CloneRaised

Outcome ==
    IF cpc = "aborted" THEN "aborted" ELSE IF cpc = "done" THEN "done" ELSE "failed"

Raise(at, err) ==
    /\ cpc' = "failed"
    /\ cerr' = [at |-> at, err |-> err]

\* commands.py line 147: clone(url, directory) is called
CloneRun ==
    /\ cpc = "idle" \/ CloneEnded
    /\ attempt < MaxAttempts
    /\ attempt' = attempt + 1
    /\ prior' = IF cpc = "idle" THEN "none" ELSE Outcome
    /\ cpc' = "mkdir"
    /\ cerr' = NoError
    /\ head_ref' = NoSha
    /\ widx' = 0
    /\ objects' = <<>>
    /\ base_objects' = <<>>
    /\ delta_objects' = <<>>
    /\ remaining_deltas' = <<>>
    /\ didx' = 0
    /\ made_progress' = FALSE
    /\ iteration' = 0
    /\ rpc' = "idle"
    /\ rerr' = "none"
    /\ UNCHANGED <<streamVars, deltaVars, repo, server, fs, shards, store, out, wrote, nops>>

\* lines 158-159: os.mkdir(directory); os.chdir(directory)
CloneMkdir ==
    /\ cpc = "mkdir"
    /\ LET r == MkDir(fs, <<>>)
       IN /\ fs' = r.fs
          /\ IF r.err # "none" THEN Raise("mkdir", r.err)
             ELSE cpc' = "init" /\ cerr' = cerr
    /\ UNCHANGED <<streamVars, deltaVars, resolveVars, repo, server, attempt, prior, head_ref,
                   widx, shards, store, out, wrote, nops>>

\* line 160: init()
CloneInit ==
    /\ cpc = "init"
    /\ LET r == InitRepo(fs)
       IN /\ fs' = r.fs
          /\ IF r.err # "none" THEN Raise("init", r.err)
             ELSE cpc' = "discover" /\ cerr' = cerr
    /\ UNCHANGED <<streamVars, deltaVars, resolveVars, repo, server, attempt, prior, head_ref,
                   widx, shards, store, out, wrote, nops>>

\* line 163: head_ref = ls_remote_head(url)
CloneDiscover ==
    /\ cpc = "discover"
    /\ LET r == LsRemoteHead(server.info, server.refs)
       IN /\ head_ref' = r.head
          /\ IF r.err # "none" THEN Raise("discover", r.err)
             ELSE cpc' = "fetch" /\ cerr' = cerr
    /\ UNCHANGED <<streamVars, deltaVars, resolveVars, repo, server, attempt, prior, widx,
                   fs, shards, store, out, wrote, nops>>

\* lines 166-169 and packfile.py line 308: fetch the pack and parse its entries
CloneFetch ==
    /\ cpc = "fetch"
    /\ objects' = [i \in 1..Len(server.pack) |-> ParseObject(server.pack[i])]
    /\ rpc' = "classify"
    /\ cpc' = "ingest"
    /\ widx' = 1
    /\ UNCHANGED <<streamVars, deltaVars, base_objects, delta_objects, remaining_deltas, didx,
                   made_progress, iteration, rerr, repo, server, cerr, attempt,
                   prior, head_ref, fs, shards, store, out, wrote, nops>>

\* the record of an object write: what was asked, what came back, and
\* whether the id was in the store before
WriteRecord(type, contents, w) ==
    [type |-> type, contents |-> contents, ret |-> w.id,
     existed |-> ObjectHash(contents, type) \in DOMAIN store, err |-> w.err]

\* lines 172-173: one turn of the loop over pack_objects
CloneWriteObject ==
    /\ cpc = "ingest"
    /\ rpc = "returned"
    /\ widx <= Len(DictValues(base_objects))
    /\ LET obj == DictValues(base_objects)[widx]
           w == CreateGitObject(Disk, obj.data, obj.type)
       IN /\ fs' = w.disk.fs
          /\ shards' = w.disk.shards
          /\ store' = w.disk.store
          /\ wrote' = WriteRecord(obj.type, obj.data, w)
          /\ IF w.err # "none" THEN Raise("write", w.err)
             ELSE cpc' = cpc /\ cerr' = cerr
    /\ widx' = widx + 1
    /\ UNCHANGED <<streamVars, deltaVars, resolveVars, repo, server, attempt, prior, head_ref,
                   out, nops>>

\* lines 176-179: .git/refs/heads/main
CloneWriteRef ==
    /\ cpc = "ingest"
    /\ rpc = "returned"
    /\ widx > Len(DictValues(base_objects))
    /\ LET r == Then(MakeDirs(fs, <<DotGit, RefsName, HeadsName>>),
                     LAMBDA g : WriteFile(g, <<DotGit, RefsName, HeadsName, MainName>>,
                                          <<head_ref, 10>>))
       IN /\ fs' = r.fs
          /\ IF r.err # "none" THEN Raise("ref", r.err)
             ELSE cpc' = "checkout" /\ cerr' = cerr
    /\ UNCHANGED <<streamVars, deltaVars, resolveVars, repo, server, attempt, prior, head_ref,
                   widx, shards, store, out, wrote, nops>>

\* line 182: checkout(head_ref)
CloneCheckout ==
    /\ cpc = "checkout"
    /\ LET r == Checkout(fs, store, head_ref)
       IN /\ fs' = r.fs
          /\ IF r.err # "none" THEN Raise("checkout", r.err)
             ELSE cpc' = "done" /\ cerr' = cerr
    /\ UNCHANGED <<streamVars, deltaVars, resolveVars, repo, server, attempt, prior, head_ref,
                   widx, shards, store, out, wrote, nops>>

\* the process is killed before its next step
Abort ==
    /\ CloneRunning
    /\ cpc' = "aborted"
    /\ UNCHANGED <<streamVars, deltaVars, resolveVars, repo, server, cerr, attempt, prior,
                   head_ref, widx, fs, shards, store, out, wrote, nops>>

----------------------------------------------------------------------------
(* Local commands, run in the clone directory by a user who is not root:   *)
(* hash-object, write-tree, commit-tree                                    *)

\* bytes compared as Python compares str and bytes
RECURSIVE LexLess(_, _)
LexLess(a, b) ==
    IF b = <<>> THEN FALSE
    ELSE IF a = <<>> THEN TRUE
    ELSE IF Head(a) # Head(b) THEN Head(a) < Head(b)
    ELSE LexLess(Tail(a), Tail(b))

\* sorted(tree, key=lambda entry: entry.name), entries being <<mode, name, id>>
RECURSIVE SortByName(_)
SortByName(tree) ==
    IF tree = {} THEN <<>>
    ELSE LET first == CHOOSE e \in tree : \A o \in tree \ {e} : ~LexLess(o[2], e[2])
         IN <<first>> \o SortByName(tree \ {first})

RECURSIVE JoinEntries(_)
JoinEntries(tree) ==
    IF tree = <<>> THEN <<>>
    ELSE Head(tree)[1] \o <<32>> \o Head(tree)[2] \o <<0, Head(tree)[3]>>
             \o JoinEntries(Tail(tree))

\* commands.py lines 334-342: the contents _encode_tree returns
EncodeTree(tree) == JoinEntries(SortByName(Range(tree)))

\* commands.py lines 345-354, for a node that is no symlink
GetModeForEntry(node) ==
    IF node.kind = "dir" THEN Mode40000
    ELSE IF BitSet(node.perm, 6) THEN Mode100755
    ELSE Mode100644

\* the names os.scandir(path) yields, in the order rank puts them
ScanDir(f, path, rank) ==
    SelectSeq(rank, LAMBDA n : Append(path, n) \in DOMAIN f)

\* the names of the working tree
WorkNames(f) == {q[Len(q)] : q \in {x \in DOMAIN f : x # <<>> /\ x[1] # DotGit}}

\* every order of a set
RECURSIVE Orders(_)
Orders(S) ==
    IF S = {} THEN {<<>>}
    ELSE UNION {{<<x>> \o rest : rest \in Orders(S \ {x})} : x \in S}

\* commands.py lines 121-126 and 298-331: [err, id, disk]
RECURSIVE WriteTreeAt(_, _, _), CreateTree(_, _, _, _, _)
CreateTree(disk, path, names, rank, tree) ==
    IF names = <<>> THEN [err |-> "none", tree |-> tree, disk |-> disk]
    ELSE LET name == Head(names)
             node == disk.fs[Append(path, name)]
         IN IF node.kind = "file"
            THEN IF ~BitSet(node.perm, 8)
                 THEN [err |-> "PermissionError", tree |-> tree, disk |-> disk]
                 ELSE LET w == WriteContentsToDisk(disk, node.data, "blob")
                          object_hash ==
                              Sha1(KindBytes("blob") \o <<32>>
                                       \o Decimal(Len(node.data)) \o <<0>> \o node.data)
                      IN IF w.err # "none"
                         THEN [err |-> w.err, tree |-> tree, disk |-> w.disk]
                         ELSE CreateTree(w.disk, path, Tail(names), rank,
                                  Append(tree, <<GetModeForEntry(node), name, object_hash>>))
            ELSE IF name = DotGit
            THEN CreateTree(disk, path, Tail(names), rank, tree)
            ELSE LET w == WriteTreeAt(disk, Append(path, name), rank)
                 IN IF w.err # "none"
                    THEN [err |-> w.err, tree |-> tree, disk |-> w.disk]
                    ELSE CreateTree(w.disk, path, Tail(names), rank,
                             Append(tree, <<GetModeForEntry(node), name, w.id>>))

WriteTreeAt(disk, path, rank) ==
    LET made == CreateTree(disk, path, ScanDir(disk.fs, path, rank), rank, <<>>)
    IN IF made.err # "none" THEN Written(made.err, NoSha, made.disk)
       ELSE WriteContentsToDisk(made.disk, EncodeTree(made.tree), "tree")

\* commands.py lines 130-144
CommitTreeAt(disk, tree_sha, parent, message) ==
    WriteContentsToDisk(disk, CommitPayload(tree_sha, ParentLine(parent), message),
                        "commit")

\* the file hash-object is given holds these bytes
LocalPayloads == {<<65, 66>>}

CanRunLocal ==
    /\ cpc # "idle"
    /\ ~CloneRunning
    /\ <<>> \in DOMAIN fs
    /\ nops < MaxLocalOps

\* commands.py lines 66-83: hash_object without --write
HashObject ==
    /\ CanRunLocal
    /\ \E contents \in LocalPayloads :
          /\ out' = [err |-> "none", id |-> ObjectHash(contents, "blob")]
    /\ nops' = nops + 1
    /\ UNCHANGED <<streamVars, deltaVars, resolveVars, repo, server, cpc, cerr, attempt, prior,
                   head_ref, widx, fs, shards, store, wrote>>

\* commands.py lines 66-83: hash_object with --write
HashObjectW ==
    /\ CanRunLocal
    /\ \E contents \in LocalPayloads :
          LET w == CreateGitObject(Disk, contents, "blob")
          IN /\ fs' = w.disk.fs
             /\ shards' = w.disk.shards
             /\ store' = w.disk.store
             /\ wrote' = WriteRecord("blob", contents, w)
             /\ out' = [err |-> w.err, id |-> IF w.err = "none" THEN w.id ELSE NoSha]
    /\ nops' = nops + 1
    /\ UNCHANGED <<streamVars, deltaVars, resolveVars, repo, server, cpc, cerr, attempt, prior,
                   head_ref, widx>>

\* commands.py lines 121-126: write_tree() on the clone directory
WriteTree ==
    /\ CanRunLocal
    /\ \E rank \in Orders(WorkNames(fs)) :
          LET made == CreateTree(Disk, <<>>, ScanDir(fs, <<>>, rank), rank, <<>>)
              w == IF made.err # "none" THEN Written(made.err, NoSha, made.disk)
                   ELSE WriteContentsToDisk(made.disk, EncodeTree(made.tree), "tree")
          IN /\ fs' = w.disk.fs
             /\ shards' = w.disk.shards
             /\ store' = w.disk.store
             /\ wrote' = IF made.err # "none" THEN wrote
                         ELSE WriteRecord("tree", EncodeTree(made.tree), w)
             /\ out' = [err |-> w.err, id |-> IF w.err = "none" THEN w.id ELSE NoSha]
    /\ nops' = nops + 1
    /\ UNCHANGED <<streamVars, deltaVars, resolveVars, repo, server, cpc, cerr, attempt, prior,
                   head_ref, widx>>

\* commands.py lines 129-144: commit_tree on the id the last command
\* returned, with the head of the clone as parent
CommitTree ==
    /\ CanRunLocal
    /\ out.id # NoSha
    /\ head_ref # NoSha
    /\ LET contents == CommitPayload(out.id, ParentLine(head_ref), <<109>>)
           w == CommitTreeAt(Disk, out.id, head_ref, <<109>>)
       IN /\ fs' = w.disk.fs
          /\ shards' = w.disk.shards
          /\ store' = w.disk.store
          /\ wrote' = WriteRecord("commit", contents, w)
          /\ out' = [err |-> w.err, id |-> IF w.err = "none" THEN w.id ELSE NoSha]
    /\ nops' = nops + 1
    /\ UNCHANGED <<streamVars, deltaVars, resolveVars, repo, server, cpc, cerr, attempt, prior,
                   head_ref, widx>>

----------------------------------------------------------------------------
(* Runs of the program: one server, clone run on it up to MaxAttempts      *)
(* times, killed at any step, with local commands run in between           *)

NameA == <<97>>
NameB == <<98>>
NameD == <<100>>

\* the repository the servers of Spec hold
BaseRepo ==
    <<File(Mode100644, NameA, <<65, 66>>),
      Dir(NameD, <<File(Mode100755, NameB, <<66>>)>>)>>

\* the pack of BaseRepo with the blob <<66>> as a delta on the blob <<65, 66>>,
\* the delta ahead of its base
DeltaPack ==
    <<WireRefDelta("blob", <<65, 66>>, <<Copy(1, 1)>>)>>
        \o SelectSeq(PlainPack(BaseRepo), LAMBDA e : e # WireEntry(3, <<66>>))

NameSpaced == <<98, 32, 99>>
NameL == <<108>>

\* a repository with a file named "b c"
SpacedRepo == <<File(Mode100644, NameA, <<65>>), File(Mode100644, NameSpaced, <<66>>)>>

\* a repository with a symbolic link to a
LinkRepo == <<File(Mode100644, NameA, <<65>>), File(Mode120000, NameL, NameA)>>

Scenario(entries, srv) == [repo |-> entries, server |-> srv]

Scenarios ==
    {Scenario(BaseRepo, Serve(BaseRepo, PlainPack(BaseRepo))),
     Scenario(BaseRepo, Serve(BaseRepo, DeltaPack)),
     Scenario(SpacedRepo, Serve(SpacedRepo, PlainPack(SpacedRepo))),
     Scenario(LinkRepo, Serve(LinkRepo, PlainPack(LinkRepo))),
     \* an entry of type_id 5
     Scenario(BaseRepo,
              Serve(BaseRepo, Append(PlainPack(BaseRepo), WireEntry(5, <<67>>)))),
     \* an entry of type_id 0
     Scenario(BaseRepo,
              Serve(BaseRepo, <<WireEntry(0, <<67>>)>> \o PlainPack(BaseRepo))),
     \* an ofs-delta entry
     Scenario(BaseRepo,
              Serve(BaseRepo, Append(PlainPack(BaseRepo),
                                     [hdr |-> EncodeEntryHeader(6, 4), base |-> NoSha,
                                      data |-> <<1, 1, 1, 72>>]))),
     \* a delta whose base is in no pack
     Scenario(BaseRepo,
              Serve(BaseRepo, Append(PlainPack(BaseRepo),
                                     WireRefDelta("blob", <<90>>, <<Insert(<<72>>)>>)))),
     \* a first pkt-line that is not the service announcement
     Scenario(BaseRepo,
              [Serve(BaseRepo, PlainPack(BaseRepo)) EXCEPT !.info = InfoRefs(<<35>>)]),
     \* no line with HEAD in the ls-refs response
     Scenario(BaseRepo,
              [Serve(BaseRepo, PlainPack(BaseRepo)) EXCEPT
                  !.refs = LsRefs(HeadId(BaseRepo), MainName)])}

Init ==
    /\ StreamIdle
    /\ DeltaIdle
    /\ ResolveIdle
    /\ CloneFresh
    /\ \E sc \in Scenarios :
          /\ repo = sc.repo
          /\ server = sc.server

Next ==
    \/ CloneRun
    \/ CloneMkdir
    \/ CloneInit
    \/ CloneDiscover
    \/ CloneFetch
    \/ cpc = "ingest" /\ ResolveClassify /\ UNCHANGED <<streamVars, deltaVars, cloneVars>>
    \/ cpc = "ingest" /\ ResolveStep /\ UNCHANGED <<streamVars, deltaVars, cloneVars>>
    \/ cpc = "ingest" /\ ResolveEndPass /\ UNCHANGED <<streamVars, deltaVars, cloneVars>>
    \/ CloneWriteObject
    \/ CloneWriteRef
    \/ CloneCheckout
    \/ Abort
    \/ HashObject
    \/ HashObjectW
    \/ WriteTree
    \/ CommitTree

Spec == Init /\ [][Next]_vars

----------------------------------------------------------------------------
(* Properties of the object store *)

\* int(digits), -1 where it raises ValueError
RECURSIVE DecimalValue(_, _)
DecimalValue(digits, acc) ==
    IF digits = <<>> THEN acc
    ELSE IF Head(digits) \notin 48..57 THEN -1
    ELSE DecimalValue(Tail(digits), acc * 10 + (Head(digits) - 48))

\* the parts of framed bytes <kind> <len>\0<payload>
Framing(raw) ==
    LET nul == IndexOf(raw, 0, 0)
        sp == IndexOf(raw, 32, 0)
    IN [ok |-> sp > 0 /\ nul > sp + 1,
        kind |-> Slice(raw, 0, sp),
        length |-> DecimalValue(Slice(raw, sp + 1, nul), 0),
        payload |-> Slice(raw, nul + 1, Len(raw))]

StoredKinds == {Framing(ZlibDecompress(store[id])).kind : id \in DOMAIN store}

\* C1: every entry of the object store is stored under the SHA-1 of its
\* decompressed bytes, which are framed <kind> <len>\0<payload> with len the
\* length of the payload, whichever of hash-object -w, write-tree,
\* commit-tree and clone wrote it.
C1_StoreContentAddressed ==
    \A id \in DOMAIN store :
        LET raw == ZlibDecompress(store[id])
        IN /\ Sha1(raw) = id
           /\ Framing(raw).ok
           /\ Framing(raw).length = Len(Framing(raw).payload)

\* clone, write-tree and commit-tree have all written to the store
C1_Witness ==
    /\ cpc = "done"
    /\ nops = 2
    /\ wrote.type = "commit"
    /\ wrote.err = "none"
    /\ ~wrote.existed
    /\ KindBytes("tree") \in StoredKinds
    /\ Cardinality(DOMAIN store) >= 6

\* the entries of the pack the server sends, as parse_objects reads them
ServedObjects == [i \in 1..Len(server.pack) |-> ParseObject(server.pack[i])]

\* the first clone has written every object of the pack, and no local
\* command has written since
IngestedFresh ==
    /\ attempt = 1
    /\ nops = 0
    /\ rpc = "returned"
    /\ widx > Len(base_objects)

\* C2: after the ingest of a clone into an empty store, the ids in the store
\* are the ids of the non-delta entries of the pack and of the objects their
\* ref-deltas resolve to, each resolved object hashed with the kind of its
\* base, and no other id.
C2_StoreIsPackClosure ==
    IngestedFresh =>
        DOMAIN store = {o.sha : o \in PackClosure(ServedObjects)}

\* a pack with a ref-delta has been ingested: five objects, one of them resolved
C2_Witness ==
    /\ IngestedFresh
    /\ cpc = "done"
    /\ RefDeltas(ServedObjects) # {}
    /\ Cardinality(PlainObjs(ServedObjects)) = 4
    /\ Cardinality(DOMAIN store) = 5

\* C6: a write of a (kind, payload) whose id is in the store does not fail,
\* returns that id and leaves the bytes stored under it as they were; no step
\* removes an id from the store or changes the bytes stored under one.
C6_AppendOnlyIdempotent ==
    /\ [](wrote.existed =>
            /\ wrote.err = "none"
            /\ wrote.ret = ObjectHash(wrote.contents, wrote.type)
            /\ wrote.ret \in DOMAIN store)
    /\ [][\A id \in DOMAIN store : id \in DOMAIN store' /\ store'[id] = store[id]]_vars

\* hash-object -w wrote a blob the store already held
C6_Witness ==
    /\ wrote.existed
    /\ wrote.type = "blob"
    /\ wrote.err = "none"
    /\ out.id = wrote.ret
    /\ nops >= 1
    /\ ZlibDecompress(store[wrote.ret]) = BlobObject(wrote.contents, "blob")

----------------------------------------------------------------------------
(* Properties of clone *)

\* the server announces the service and HEAD, and its pack is the pack of
\* its repository
ServesRepo ==
    \/ server = Serve(repo, PlainPack(repo))
    \/ repo = BaseRepo /\ server = Serve(BaseRepo, DeltaPack)

\* every entry under a tree has its path in the working tree
RECURSIVE Materialized(_, _, _)
Materialized(f, entries, path) ==
    \A i \in 1..Len(entries) :
        LET e == entries[i]
            full_path == Append(path, e.name)
        IN /\ full_path \in DOMAIN f
           /\ IF e.mode = Mode40000
              THEN f[full_path].kind = "dir" /\ Materialized(f, e.sub, full_path)
              ELSE /\ f[full_path].kind = "file"
                   /\ f[full_path].data = e.blob
                   /\ e.mode = Mode100644 => f[full_path].perm = 420
                   /\ e.mode = Mode100755 => f[full_path].perm = 493

\* the first run of clone went to its end, and nothing ran after it
FirstCloneOver ==
    /\ attempt = 1
    /\ nops = 0
    /\ cpc = "done" \/ CloneRaised

\* C5: clone of a repository whose entry names are non-empty and hold no '/'
\* and no NUL ends with every entry reachable from the root tree of the HEAD
\* commit at its path: a directory for mode 40000, a file with the bytes of
\* the blob and the permission bits 644 or 755 for modes 100644 and 100755,
\* a file with the target bytes for mode 120000.
C5_CheckoutMaterializes ==
    (FirstCloneOver /\ ServesRepo) =>
        /\ cpc = "done"
        /\ Materialized(fs, repo, <<>>)

\* the object store a clone that is not interrupted leaves
UninterruptedStore ==
    [id \in {o.sha : o \in PackClosure(ServedObjects)} |->
        ZlibCompress(BlobObject(
            (CHOOSE o \in PackClosure(ServedObjects) : o.sha = id).data,
            (CHOOSE o \in PackClosure(ServedObjects) : o.sha = id).type))]

\* the repositories whose entry names _parse_tree can split
ClonesCleanly == ServesRepo /\ repo \in {BaseRepo, LinkRepo}

\* C8: a clone run again on the same url and directory after a run that was
\* killed completes, and leaves the object store an uninterrupted clone leaves.
C8_RerunCompletes ==
    (prior = "aborted" /\ nops = 0 /\ ClonesCleanly
        /\ (cpc = "done" \/ CloneRaised)) =>
        /\ cpc = "done"
        /\ store = UninterruptedStore

DiscoveryFailed ==
    /\ cpc = "failed"
    /\ cerr.at = "discover"
    /\ nops = 0

\* C9 as stated: when reference discovery fails, nothing has been written, no
\* directory, no file under .git and no object.
C9_NoWriteBeforeFailure ==
    DiscoveryFailed =>
        /\ DOMAIN fs = {}
        /\ DOMAIN store = {}
        /\ shards = {}

\* what os.mkdir(directory) and init() leave
Skeleton ==
    {<<>>, <<DotGit>>, <<DotGit, ObjectsName>>, <<DotGit, RefsName>>,
     <<DotGit, HeadName>>}

\* C9, amended: when reference discovery fails (a first pkt-line that is not
\* the service announcement, or no line with HEAD in the ls-refs response),
\* clone has created the directory and what init writes in it (.git,
\* .git/objects, .git/refs and .git/HEAD) and nothing else: no object, no
\* ref and no file of the working tree.
C9_OnlyInitBeforeFailure ==
    DiscoveryFailed =>
        /\ cerr.err \in {"AssertionError", "HEAD ref not found!"}
        /\ head_ref = NoSha
        /\ DOMAIN fs = Skeleton
        /\ fs[<<DotGit, HeadName>>] = FileNode(HeadContent, 420)
        /\ \A q \in Skeleton \ {<<DotGit, HeadName>>} : fs[q].kind = "dir"
        /\ DOMAIN store = {}
        /\ shards = {}

\* discovery failed for want of a HEAD line
C9_Witness ==
    /\ DiscoveryFailed
    /\ cerr.err = "HEAD ref not found!"
    /\ attempt = 1
    /\ IsDir(fs, <<DotGit, ObjectsName>>)

FourKinds == {"blob", "tree", "commit", "tag"}

\* the 3-bit type_id of a pack entry
TypeId(entry) == (entry.hdr[1] \div 16) % 8

HasUnknownType == \E i \in 1..Len(server.pack) : TypeId(server.pack[i]) \in {0, 5}

\* C10: a pack entry of type_id 0 or 5 makes ingest fail; the parser never
\* returns an object of a kind other than blob, tree, commit and tag, and no
\* such object is ever written to the store.
C10_UnknownTypeRejected ==
    /\ (HasUnknownType /\ cpc \notin {"idle", "mkdir", "init", "discover", "fetch"}
           /\ ~CloneRunning /\ cpc # "aborted") => CloneRaised
    /\ rpc = "returned" =>
           \A i \in 1..Len(base_objects) : base_objects[i].val.type \in FourKinds
    /\ StoredKinds \subseteq {KindBytes(k) : k \in FourKinds}

----------------------------------------------------------------------------
(* The fetch response as a stream of bytes, and packfile.py reading it.    *)
(* The position of the stream is counted from 0: the byte read next is     *)
(* stream[cursor + 1].  An object id (20 bytes in the program) is one      *)
(* position of the stream, as it is one position of every byte string.     *)

IdWidth == 1

\* zlib's Adler-32 as its four bytes, most significant first
RECURSIVE AdlerSums(_, _, _, _)
AdlerSums(data, i, a, b) ==
    IF i > Len(data) THEN <<a, b>>
    ELSE AdlerSums(data, i + 1, (a + data[i]) % 65521,
                   (b + a + data[i]) % 65521)

Adler32(data) ==
    LET ab == AdlerSums(data, 1, 1, 0)
    IN <<ab[2] \div 256, ab[2] % 256, ab[1] \div 256, ab[1] % 256>>

\* a zlib stream holding data in one stored deflate block, as
\* zlib.compress(data, 0) writes it: header 78 01, the block header with
\* BFINAL set and BTYPE 00, LEN and its complement NLEN, the bytes, Adler-32
ZlibHeader == <<120, 1>>

StoredBlock(data, final) ==
    <<IF final THEN 1 ELSE 0,
      Len(data) % 256, Len(data) \div 256,
      255 - (Len(data) % 256), 255 - (Len(data) \div 256)>> \o data

Deflate(data) == ZlibHeader \o StoredBlock(data, TRUE) \o Adler32(data)

\* the decompressor at the checksum that follows the final block
InflateCheck(s, q, data) ==
    IF Len(s) - q < 4 THEN [data |-> data, cursor |-> Len(s), end |-> "input"]
    ELSE IF Slice(s, q, q + 4) = Adler32(data)
         THEN [data |-> data, cursor |-> q + 4, end |-> "eof"]
    ELSE [data |-> data, cursor |-> q + 3, end |-> "error"]

\* the decompressor at the header of a deflate block.  Stored blocks are
\* decoded; a block of type 1 or 2 (Huffman codes) ends the decoding with
\* end = "huffman", which no run of the model reaches.
RECURSIVE InflateBlocks(_, _, _)
InflateBlocks(s, p, acc) ==
    IF p >= Len(s) THEN [data |-> acc, cursor |-> Len(s), end |-> "input"]
    ELSE LET btype == (s[p + 1] \div 2) % 4
             final == s[p + 1] % 2 = 1
         IN IF btype = 3 THEN [data |-> acc, cursor |-> p, end |-> "error"]
            ELSE IF btype # 0 THEN [data |-> acc, cursor |-> p, end |-> "huffman"]
            ELSE IF Len(s) - p < 5
                 THEN [data |-> acc, cursor |-> Len(s), end |-> "input"]
            ELSE LET len  == s[p + 2] + 256 * s[p + 3]
                     nlen == s[p + 4] + 256 * s[p + 5]
                     got  == Slice(s, p + 5, p + 5 + len)
                 IN IF len + nlen # 65535
                    THEN [data |-> acc, cursor |-> p + 4, end |-> "error"]
                    ELSE IF Len(got) < len
                         THEN [data |-> acc \o got, cursor |-> Len(s), end |-> "input"]
                    ELSE IF final THEN InflateCheck(s, p + 5 + len, acc \o got)
                    ELSE InflateBlocks(s, p + 5 + len, acc \o got)

\* packfile.py lines 107-123, _read_compressed_data: the stream is fed to
\* the decompressor one byte at a time.  The loop ends when the decompressor
\* reports the end of the zlib stream (end = "eof"), when the stream has no
\* byte left (end = "input"), or on zlib.error, after stepping back onto the
\* byte that raised it (end = "error"); in every case the bytes inflated so
\* far are returned.  zlib checks the two header bytes when it has both.
ReadCompressedData_Greedy(s, c) ==
    IF Len(s) - c < 2 THEN [data |-> <<>>, cursor |-> Len(s), end |-> "input"]
    ELSE IF \/ (s[c + 1] * 256 + s[c + 2]) % 31 # 0
            \/ s[c + 1] % 16 # 8
            \/ s[c + 1] \div 16 > 7
            \/ BitSet(s[c + 2], 5)
         THEN [data |-> <<>>, cursor |-> c + 1, end |-> "error"]
    ELSE [InflateBlocks(s, c + 2, <<>>) EXCEPT !.cursor = Len(s)]

ReadCompressedData(s, c) ==
    IF Len(s) - c < 2 THEN [data |-> <<>>, cursor |-> Len(s), end |-> "input"]
    ELSE IF \/ (s[c + 1] * 256 + s[c + 2]) % 31 # 0
            \/ s[c + 1] % 16 # 8
            \/ s[c + 1] \div 16 > 7
            \/ BitSet(s[c + 2], 5)
         THEN [data |-> <<>>, cursor |-> c + 1, end |-> "error"]
    ELSE InflateBlocks(s, c + 2, <<>>)

\* lines 29-34, _read_bytes(n): [err, data, cursor]; a short read is
\* returned as it is, an empty one raises EOFError
ReadBytes(s, c, n) ==
    LET data == Slice(s, c, c + n)
    IN IF data = <<>> /\ n > 0
       THEN [err |-> "EOFError", data |-> <<>>, cursor |-> c]
       ELSE [err |-> "none", data |-> data, cursor |-> c + Len(data)]

\* lines 91-94: the continuation bytes of the size
RECURSIVE ReadSizeAt(_, _, _, _, _)
ReadSizeAt(s, c, byte, shift, size) ==
    IF ~BitSet(byte, 7) THEN [err |-> "none", size |-> size, cursor |-> c]
    ELSE IF c >= Len(s) THEN [err |-> "EOFError", size |-> size, cursor |-> c]
    ELSE ReadSizeAt(s, c + 1, s[c + 1], shift + 7,
                    size + Shl(s[c + 1] % 128, shift))

\* lines 84-105, _read_varint on the stream: [err, size, type, cursor]
ReadVarintAt(s, c) ==
    IF c >= Len(s) THEN [err |-> "EOFError", size |-> 0, type |-> "", cursor |-> c]
    ELSE LET r == ReadSizeAt(s, c + 1, s[c + 1], 4, s[c + 1] % 16)
         IN [err |-> r.err, size |-> r.size,
             type |-> TypeName((s[c + 1] \div 16) % 8), cursor |-> r.cursor]

\* lines 133-140: the offset of an ofs_delta, [err, cursor]
RECURSIVE ReadOffsetAt(_, _)
ReadOffsetAt(s, c) ==
    IF c >= Len(s) THEN [err |-> "EOFError", cursor |-> c]
    ELSE IF ~BitSet(s[c + 1], 7) THEN [err |-> "none", cursor |-> c + 1]
    ELSE ReadOffsetAt(s, c + 1)

\* lines 125-154, _parse_object on the stream: [err, obj, cursor, end]
ParseObjectAt(s, c) ==
    LET v    == ReadVarintAt(s, c)
        off  == IF v.type = "ofs_delta" THEN ReadOffsetAt(s, v.cursor)
                ELSE [err |-> "none", cursor |-> v.cursor]
        base == IF v.type = "ref_delta" THEN ReadBytes(s, v.cursor, IdWidth)
                ELSE [err |-> "none", data |-> <<NoSha>>, cursor |-> off.cursor]
        none == PackObject("", 0, <<>>, NoSha)
    IN IF v.err # "none"
       THEN [err |-> v.err, obj |-> none, cursor |-> v.cursor, end |-> ""]
       ELSE IF off.err # "none"
            THEN [err |-> off.err, obj |-> none, cursor |-> off.cursor, end |-> ""]
       ELSE IF base.err # "none"
            THEN [err |-> base.err, obj |-> none, cursor |-> base.cursor, end |-> ""]
       ELSE LET z == ReadCompressedData(s, base.cursor)
            IN [err |-> "none",
                obj |-> PackObject(v.type, v.size, z.data, base.data[1]),
                cursor |-> z.cursor, end |-> z.end]

\* lines 36-51, _read_pktline: [err, content, cursor]
ReadPktline(s, c) ==
    LET head   == ReadBytes(s, c, 4)
        length == ParseHex(head.data, 0)
    IN IF head.err # "none"
       THEN [err |-> head.err, content |-> <<>>, cursor |-> c]
       ELSE IF length < 0
            THEN [err |-> "Invalid packet line length", content |-> <<>>,
                  cursor |-> head.cursor]
       ELSE IF length = 0
            THEN [err |-> "none", content |-> <<>>, cursor |-> head.cursor]
       ELSE IF length < 4
            THEN [err |-> "Invalid packet line length", content |-> <<>>,
                  cursor |-> head.cursor]
       ELSE LET body == ReadBytes(s, head.cursor, length - 4)
            IN [err |-> body.err, content |-> body.data, cursor |-> body.cursor]

\* b"PACK" and b"packfile\n"
PackWord == <<80, 65, 67, 75>>
Announcement == <<112, 97, 99, 107, 102, 105, 108, 101, 10>>

\* struct.unpack(">I", bytes)[0] of four bytes
BE32(b) == ((b[1] * 256 + b[2]) * 256 + b[3]) * 256 + b[4]
Version2 == <<0, 0, 0, 2>>
Version3 == <<0, 0, 0, 3>>

\* lines 55-62: one turn of the loop of _skip_until_pack, [err, found, cursor].
\* stream.read(4) returns the bytes that are left when fewer than 4 are, and
\* stream.seek(-3, 1) steps back from where that read ended.
SkipUntilPack_Aligned(s, c) ==
    LET data == Slice(s, c, c + 4)
    IN IF data = <<>>
       THEN [err |-> "Reached end of file without finding PACK signature",
             found |-> FALSE, cursor |-> c]
       ELSE IF data = PackWord THEN [err |-> "none", found |-> TRUE, cursor |-> c]
       ELSE [err |-> "none", found |-> FALSE, cursor |-> c + Len(data)]

SkipUntilPack(s, c) ==
    LET data == Slice(s, c, c + 4)
    IN IF data = <<>>
       THEN [err |-> "Reached end of file without finding PACK signature",
             found |-> FALSE, cursor |-> c]
       ELSE IF data = PackWord THEN [err |-> "none", found |-> TRUE, cursor |-> c]
       ELSE [err |-> "none", found |-> FALSE,
             cursor |-> IF c + Len(data) < 3 THEN 0 ELSE c + Len(data) - 3]

\* _parse_header, lines 72-82, the signature, the version and the number of
\* objects: [err, num_objects, cursor].  struct.unpack raises struct.error on
\* fewer than four bytes.
ReadPackHeader(s, c) ==
    LET signature == ReadBytes(s, c, 4)
        version   == ReadBytes(s, signature.cursor, 4)
        number    == ReadBytes(s, version.cursor, 4)
        Raised(err, at) == [err |-> err, num_objects |-> 0, cursor |-> at]
    IN IF signature.err # "none" THEN Raised(signature.err, signature.cursor)
       ELSE IF signature.data # PackWord
            THEN Raised("Invalid packfile signature", signature.cursor)
       ELSE IF version.err # "none" THEN Raised(version.err, version.cursor)
       ELSE IF Len(version.data) < 4 THEN Raised("struct.error", version.cursor)
       ELSE IF version.data \notin {Version2, Version3}
            THEN Raised("Unsupported packfile version", version.cursor)
       ELSE IF number.err # "none" THEN Raised(number.err, number.cursor)
       ELSE IF Len(number.data) < 4 THEN Raised("struct.error", number.cursor)
       ELSE [err |-> "none", num_objects |-> BE32(number.data), cursor |-> number.cursor]

----------------------------------------------------------------------------
(* Fetch responses: what a server may send *)

MaxEntries == 2
MaxScans == 32

\* an entry of a pack: its type, the bytes between its header and its zlib
\* stream, its payload, and what is wrong with it ("none", "size": the header
\* declares one byte more than the payload has, "sum": the last byte of the
\* checksum is wrong)
PackEntry(type_id, pre, data, flaw) ==
    [type_id |-> type_id, pre |-> pre, data |-> data, flaw |-> flaw]

DamagedSum(z) == [z EXCEPT ![Len(z)] = (z[Len(z)] + 1) % 256]

EntryBytes(e) ==
    EncodeEntryHeader(e.type_id,
                      IF e.flaw = "size" THEN Len(e.data) + 1 ELSE Len(e.data))
        \o e.pre
        \o (IF e.flaw = "sum" THEN DamagedSum(Deflate(e.data)) ELSE Deflate(e.data))

SentBlob == PackEntry(3, <<>>, <<65, 66>>, "none")
SentDelta ==
    PackEntry(7, <<ObjectHash(<<65, 66>>, "blob")>>,
              EncodeDelta(<<65, 66>>, ChainInstrs(1)), "none")
SentOfs == PackEntry(6, <<129, 5>>, <<1, 1, 1, 72>>, "none")
SentWrongSize == PackEntry(3, <<>>, <<67, 68>>, "size")
SentBadSum == PackEntry(3, <<>>, <<69>>, "sum")

SentUniverse == {SentBlob, SentDelta, SentOfs, SentWrongSize, SentBadSum}

\* what may stand between the announcement and the pack
FakePack == PackWord \o Version2 \o <<0, 0, 0, 0>>
Junks == {<<>>, <<1>>, <<80>>, <<80, 65, 67>>, <<48, 48, 48, 53, 1>>, PackWord, FakePack}

\* the number of bytes missing at the end of a truncated response
Cuts == {0, 1, 5, 13, 14}

\* the response without its truncation
Untruncated(x) ==
    EncodePktLine(Announcement) \o x.junk
        \o (IF x.signed
            THEN PackWord \o Version2 \o <<0, 0, 0, Len(x.entries)>>
                     \o Flatten([i \in 1..Len(x.entries) |-> EntryBytes(x.entries[i])])
            ELSE <<>>)

Response(x) == SubSeq(Untruncated(x), 1, Len(Untruncated(x)) - x.cut)

Responses ==
    {[junk |-> j, signed |-> TRUE, entries |-> es, cut |-> k] :
        j \in Junks, es \in DistinctSeqs(SentUniverse, MaxEntries), k \in Cuts}
    \cup {[junk |-> j, signed |-> FALSE, entries |-> <<>>, cut |-> 0] : j \in Junks}

----------------------------------------------------------------------------
(* Parser runs: parse_objects on a fetch response *)

StreamInit ==
    /\ DeltaIdle
    /\ ResolveIdle
    /\ CloneIdle
    /\ sent \in Responses
    /\ stream = Response(sent)
    /\ cursor = 0
    /\ spc = "announcement"
    /\ serr = "none"
    /\ num_objects = 0
    /\ decoded = <<>>
    /\ starts = <<>>
    /\ scans = 0

StreamRaise(err, at) ==
    /\ spc' = "failed"
    /\ serr' = err
    /\ cursor' = at

\* _parse_header, lines 66-68
ParseAnnouncement ==
    /\ spc = "announcement"
    /\ LET pktline == ReadPktline(stream, cursor)
       IN IF pktline.err # "none" THEN StreamRaise(pktline.err, pktline.cursor)
          ELSE IF ~StartsWith(pktline.content, Announcement)
               THEN StreamRaise("Expected packfile announcement", pktline.cursor)
          ELSE /\ spc' = "skip"
               /\ cursor' = pktline.cursor
               /\ serr' = serr
    /\ UNCHANGED <<sent, stream, num_objects, decoded, starts, scans>>

\* _parse_header, line 70: a turn of the loop of _skip_until_pack
SkipTurn ==
    /\ spc = "skip"
    /\ scans < MaxScans
    /\ LET turn == SkipUntilPack(stream, cursor)
       IN /\ cursor' = turn.cursor
          /\ serr' = turn.err
          /\ spc' = IF turn.err # "none" THEN "failed"
                    ELSE IF turn.found THEN "signature" ELSE "skip"
    /\ scans' = scans + 1
    /\ UNCHANGED <<sent, stream, num_objects, decoded, starts>>

\* _parse_header, lines 72-82
ParseHeader ==
    /\ spc = "signature"
    /\ LET header == ReadPackHeader(stream, cursor)
       IN IF header.err # "none"
          THEN StreamRaise(header.err, header.cursor) /\ num_objects' = num_objects
          ELSE /\ spc' = "entries"
               /\ cursor' = header.cursor
               /\ serr' = serr
               /\ num_objects' = header.num_objects
    /\ UNCHANGED <<sent, stream, decoded, starts, scans>>

\* parse_objects, line 308: one call of _parse_object
ParseEntry ==
    /\ spc = "entries"
    /\ Len(decoded) < num_objects
    /\ starts' = Append(starts, cursor)
    /\ LET entry == ParseObjectAt(stream, cursor)
       IN IF entry.err # "none"
          THEN StreamRaise(entry.err, entry.cursor) /\ decoded' = decoded
          ELSE /\ decoded' = Append(decoded, entry.obj)
               /\ cursor' = entry.cursor
               /\ serr' = serr
               /\ spc' = IF entry.end = "huffman" THEN "unmodelled" ELSE "entries"
    /\ UNCHANGED <<sent, stream, num_objects, scans>>

\* parse_objects, line 309: the entries go to _resolve_deltas
ParseResolve ==
    /\ spc = "entries"
    /\ Len(decoded) = num_objects
    /\ spc' = "resolve"
    /\ objects' = decoded
    /\ rpc' = "classify"
    /\ UNCHANGED <<sent, stream, cursor, serr, num_objects, decoded, starts, scans>>
    /\ UNCHANGED <<base_objects, delta_objects, remaining_deltas, didx,
                   made_progress, iteration, rerr>>

StreamNext ==
    \/ ParseAnnouncement /\ UNCHANGED <<resolveVars, deltaVars, cloneVars>>
    \/ SkipTurn /\ UNCHANGED <<resolveVars, deltaVars, cloneVars>>
    \/ ParseHeader /\ UNCHANGED <<resolveVars, deltaVars, cloneVars>>
    \/ ParseEntry /\ UNCHANGED <<resolveVars, deltaVars, cloneVars>>
    \/ ParseResolve /\ UNCHANGED <<deltaVars, cloneVars>>
    \/ ResolveClassify /\ UNCHANGED <<streamVars, deltaVars, cloneVars>>
    \/ ResolveStep /\ UNCHANGED <<streamVars, deltaVars, cloneVars>>
    \/ ResolveEndPass /\ UNCHANGED <<streamVars, deltaVars, cloneVars>>

SpecStream == StreamInit /\ [][StreamNext]_vars

----------------------------------------------------------------------------
(* Properties of the parser runs *)

\* parse_objects, line 308: the list comprehension as a whole, [err, objects]
RECURSIVE ParseObjects(_, _, _, _)
ParseObjects(s, c, k, acc) ==
    IF k = 0 THEN [err |-> "none", objects |-> acc]
    ELSE LET entry == ParseObjectAt(s, c)
         IN IF entry.err # "none" THEN [err |-> entry.err, objects |-> acc]
            ELSE ParseObjects(s, entry.cursor, k - 1, Append(acc, entry.obj))

\* the bytes of the response from the PACK signature on
PackBytes(x) == Len(Untruncated(x)) - Len(EncodePktLine(Announcement)) - Len(x.junk)

\* the response carries a whole PACK signature
Signed(x) == x.signed /\ x.cut <= PackBytes(x) - Len(PackWord)

\* what parsing the response without its junk gives: the pack starts right
\* after the announcement
WithoutJunk(x) ==
    LET s      == Response([x EXCEPT !.junk = <<>>])
        header == ReadPackHeader(s, Len(EncodePktLine(Announcement)))
    IN IF header.err # "none" THEN [err |-> header.err, objects |-> <<>>]
       ELSE ParseObjects(s, header.cursor, header.num_objects, <<>>)

SameAsWithoutJunk ==
    /\ spc = "resolve" =>
          /\ WithoutJunk(sent).err = "none"
          /\ objects = WithoutJunk(sent).objects
    /\ spc = "failed" => WithoutJunk(sent).err = serr
    /\ spc = "skip" => scans < MaxScans

\* C11 as stated: whatever bytes stand between the announcement and the PACK
\* signature, parsing ends as it does without them, with the same objects
C11_AnyJunkIgnored == Signed(sent) => SameAsWithoutJunk

\* C11: bytes between the announcement and the PACK signature that do not
\* contain the four bytes PACK leave the outcome of parsing as it is
\* without them: the same objects or the same error
C11_JunkWithoutPackIgnored ==
    (Signed(sent) /\ ~Contains(sent.junk, PackWord)) => SameAsWithoutJunk

C11_Witness ==
    /\ Signed(sent)
    /\ sent.junk = <<80, 65, 67>>
    /\ spc = "resolve"
    /\ scans = 4
    /\ Len(objects) = 2

----------------------------------------------------------------------------
(* Order of store writes and delta application during the ingest of clone *)

\* a pass of the resolver of clone is under way, with deltas to apply
ClonePassRunning ==
    /\ cpc = "ingest"
    /\ rpc = "pass"
    /\ delta_objects # <<>>

\* C12 as stated: when a pass over the deltas is under way, every non-delta
\* object of the pack is in the object store, and when a pass begins every
\* object resolved so far is in the object store
C12_WritesPrecedeDeltas ==
    ClonePassRunning =>
        /\ {o.sha : o \in PlainObjs(objects)} \subseteq DOMAIN store
        /\ (didx = 1 => ResolvedIds \subseteq DOMAIN store)

----------------------------------------------------------------------------
(* The cursor between the entries of a pack *)

\* the response is whole, its entries are sound, and the first PACK in it is
\* the signature of the pack
WellFormedResponse(x) ==
    /\ x.signed
    /\ x.cut = 0
    /\ ~Contains(x.junk, PackWord)
    /\ \A i \in 1..Len(x.entries) : x.entries[i].flaw = "none"

\* where the bytes of the i-th entry begin in the response; for
\* i = Len(x.entries) + 1, where the last entry ends
RECURSIVE EntryStart(_, _)
EntryStart(x, i) ==
    IF i = 1
    THEN Len(EncodePktLine(Announcement)) + Len(x.junk) + Len(PackWord) + 8
    ELSE EntryStart(x, i - 1) + Len(EntryBytes(x.entries[i - 1]))

\* what the i-th entry holds
EntryObject(e) ==
    PackObject(TypeName(e.type_id), Len(e.data), e.data,
               IF e.type_id = 7 THEN e.pre[1] ELSE NoSha)

\* C13: on a well-formed response of N entries parsing does not fail; every
\* call of the entry decoder starts at the first byte of the next entry, and
\* leaves the cursor at the first byte after the zlib stream of the entry it
\* decoded, having decoded what the entry holds; N entries are decoded and
\* the cursor ends at the end of the response
C13_CursorAtEntryBoundaries ==
    WellFormedResponse(sent) =>
        /\ spc # "failed"
        /\ spc \in {"entries", "resolve"} =>
              /\ Len(starts) = Len(decoded)
              /\ \A i \in 1..Len(starts) :
                    /\ starts[i] = EntryStart(sent, i)
                    /\ decoded[i] = EntryObject(sent.entries[i])
              /\ cursor = EntryStart(sent, Len(decoded) + 1)
        /\ spc = "resolve" =>
              /\ Len(decoded) = Len(sent.entries)
              /\ cursor = Len(stream)

C13_Witness ==
    /\ WellFormedResponse(sent)
    /\ sent.junk = <<1>>
    /\ sent.entries = <<SentDelta, SentBlob>>
    /\ spc = "resolve"
    /\ starts = <<26, 26 + Len(EntryBytes(SentDelta))>>
    /\ cursor = Len(stream)

----------------------------------------------------------------------------
(* The command byte 0 in a delta *)

HasReservedCmd == \E i \in 1..Len(dInstrs) : dInstrs[i] = ReservedCmd

\* C14 as stated: applying a delta whose instruction stream holds the command
\* byte 0 fails
C14_ZeroCommandRejected ==
    (dpc = "applied" /\ HasReservedCmd) => dResult.err # "none"

----------------------------------------------------------------------------
(* The size an entry declares and the bytes it yields *)

\* C15 as stated: every non-delta object the entry decoder has returned has
\* as many bytes of data as its header declares
C15_DataHasDeclaredSize ==
    \A i \in 1..Len(decoded) :
        decoded[i].type \notin {"ofs_delta", "ref_delta"} =>
            Len(decoded[i].data) = decoded[i].size

----------------------------------------------------------------------------
(* A ref-delta that precedes its base in the pack *)

\* the pack is [ref_delta on X, X] and the delta applies to X
DeltaThenBase ==
    /\ Len(objects) = 2
    /\ objects[1].type = "ref_delta"
    /\ objects[2].type \notin {"ofs_delta", "ref_delta"}
    /\ objects[1].base_sha = ObjectHash(objects[2].data, objects[2].type)
    /\ ApplyDelta(objects[2].data, objects[1].data).err = "none"

\* the id of X and the id of what the delta resolves to
BothIds ==
    {ObjectHash(objects[2].data, objects[2].type),
     ObjectHash(ApplyDelta(objects[2].data, objects[1].data).data, objects[2].type)}

PassOver == rpc = "pass" /\ didx > Len(delta_objects)

\* C16 as stated: the delta is still pending when the first pass is over, and
\* the resolver returns after a second pass with both ids
C16_NeedsTwoPasses ==
    DeltaThenBase =>
        /\ rpc # "failed"
        /\ (PassOver /\ iteration = 1) => remaining_deltas = <<objects[1]>>
        /\ (PassOver /\ iteration = 2) => remaining_deltas = <<>>
        /\ rpc = "returned" => iteration = 2 /\ ResolvedIds = BothIds

\* C16: for a pack [ref_delta on X, X] the resolver returns with the id of X
\* and the id of the resolved delta, after one pass: X is registered as a
\* base before the first pass begins, so no delta is pending when it is over
C16_OnePassSuffices ==
    DeltaThenBase =>
        /\ rpc # "failed"
        /\ PassOver => iteration = 1 /\ remaining_deltas = <<>>
        /\ rpc = "returned" => iteration = 1 /\ ResolvedIds = BothIds

C16_Witness ==
    /\ DeltaThenBase
    /\ objects = <<ChainDelta(1), BlobAB>>
    /\ rpc = "returned"
    /\ iteration = 1
    /\ ResolvedIds = BothIds
    /\ Cardinality(BothIds) = 2

----------------------------------------------------------------------------
(* The scan for the PACK signature *)

\* where _skip_until_pack starts: right after the announcement
ScanStart == Len(EncodePktLine(Announcement))

PackAt(s, c) == Slice(s, c, c + 4) = PackWord

\* C17 as stated: the scan ends.  The turn the scan takes depends on the
\* cursor alone, which has Len(stream) + 1 positions, so a scan that ends
\* takes no more turns than that; it ends at the first window equal to PACK,
\* or with the error when there is none
C17_ScanTerminates ==
    /\ spc = "skip" => scans <= Len(stream) + 1
    /\ spc = "signature" =>
          /\ PackAt(stream, cursor)
          /\ \A c \in ScanStart..(cursor - 1) : ~PackAt(stream, c)
    /\ (spc = "failed" /\ serr = "Reached end of file without finding PACK signature") =>
          \A c \in ScanStart..Len(stream) : ~PackAt(stream, c)

====
